---------------------------- MODULE Spec2Model ----------------------------
(***************************************************************************)
(* Model of the leiogo crawl engine: Crawler.Crawl and its dispatcher,     *)
(* ConcurrentCount (the in-flight counter), the request queue, the token   *)
(* gate, the UserInterrupt listener and StatusInfo.                        *)
(*                                                                         *)
(* Goroutines are modelled by program counters:                            *)
(*   mainPc      the goroutine running Crawler.Crawl                       *)
(*   waiterPc    the goroutine running count.Wait(); close(requests)       *)
(*   intrPc      the goroutine started by UserInterrupt.Open               *)
(*   reqPc[r]    the life of request r: the NewRequest/addRequest call,    *)
(*               its sender goroutine, and the task goroutine running      *)
(*               crawl(r)                                                  *)
(*   itemPc[i]   the life of item i: the NewItem call and its pipeline     *)
(*               goroutine                                                 *)
(* Middlewares, the Downloader, parsers and pipelines are user code behind *)
(* interfaces: each call returns one of ok / drop / fail, chosen           *)
(* nondeterministically, and the ones that hold a Yielder may call         *)
(* NewRequest / NewItem before they return.                                *)
(***************************************************************************)
EXTENDS Integers, Sequences, FiniteSets, TLC

\* ---- bounds of the model
MaxReq     == 2   \* NewRequest/addRequest calls in one crawl, start URLs included
MaxItems   == 1   \* NewItem calls in one crawl
MaxSignals == 1   \* interrupt signals the OS delivers during one crawl

\* ---- program constants (CreateCrawlerBuilder)
RequestsCap == 1  \* requests: make(chan *leiogo.Request, 1)
DoneCap     == 1  \* count.done: make(chan bool, 1)
InterruptCap == 1 \* u.interrupt: make(chan os.Signal, 1)

\* ---- the registered chains (names only; behaviour is behind the interface)
DownloadMiddlewares == <<"dm1", "dm2">>
SpiderMiddlewares   == <<"sm1">>
ItemPipelines       == <<"ip1", "ip2">>

ReqIds  == 1..MaxReq
ItemIds == 1..MaxItems

\* thread identities used as the caller of NewRequest / NewItem
MainThread    == 0
ItemThread(i) == MaxReq + i

Results == {"ok", "drop", "fail"}

VARIABLES
    startURLs,      \* len(spider.StartURLs)
    tokensCap,      \* cap(c.tokens) = ConcurrentRequests
    mainPc,         \* position of Crawl
    startIdx,       \* start URLs already passed to addRequest
    mainReq,        \* request received by the dispatcher, waiting for a token
    lifecycle,      \* per component category: "new", "open", "closed"
    reqPc, creator, nreq,
    itemPc, icreator, nitem,
    requests,       \* buffer of c.requests
    reqClosed,      \* close(c.requests) has run
    tokens,         \* len(c.tokens)
    done,           \* buffer of c.count.done
    count,          \* c.count.count
    waiterPc,
    StatusInfo,     \* Pages, Crawled, Succeed, Items, Files, Interrupted, Reason
    sigCh, sigSent, intrPc,
    flagVisible,    \* the store to Interrupted has reached the other goroutines
    \* history variables
    outcomes,       \* per request: the outcomes recorded for it, in order;
                    \* per running item task: the calls of its pipeline
                    \* loop and their results (gone with the goroutine)
    intrDone,       \* some call of StatusInfo.Interrupt() has returned
    lateYield,      \* requests whose NewRequest call started after that
    lateItems,      \* items whose NewItem call started after that
    adds, dones,    \* completed count.Add() / count.Done() calls
    closeReason,    \* per component category: the reason its Close was given
    \* the crawl with the default middlewares (second part of the module)
    conf,           \* the settings of the crawl and the behaviour of its user code
    task,           \* per yielded request: position, url, meta, response, logs
    Cache,          \* CacheMiddleware.Cache
    mwTokens,       \* len(c.tokens)
    mwCount,        \* requests added to the in-flight counter and not yet done
    mwStatus,       \* StatusInfo: Pages, Crawled, Succeed, Items, Files, Reason
    mwMain,         \* position of Crawl: start URLs passed, queue closed,
                    \* returned; the item goroutines NewItem started
    \* StatusInfo with its mutex and the goroutines that use it (third part)
    si

mwVars == <<conf, task, Cache, mwTokens, mwCount, mwStatus, mwMain>>

vars == <<startURLs, tokensCap, mainPc, startIdx, mainReq, lifecycle,
          reqPc, creator, nreq, itemPc, icreator, nitem,
          requests, reqClosed, tokens, done, count, waiterPc, StatusInfo,
          sigCh, sigSent, intrPc, flagVisible, outcomes, intrDone, lateYield,
          lateItems, adds, dones, closeReason, mwVars, si>>

cfgVars  == <<startURLs, tokensCap>>
mainVars == <<mainPc, startIdx, mainReq, lifecycle>>
reqVars  == <<reqPc, creator, nreq>>
itemVars == <<itemPc, icreator, nitem>>
cntVars  == <<done, count, waiterPc>>
sigVars  == <<sigCh, sigSent, intrPc, flagVisible, intrDone>>

\* the second part of the module is not running
MwOff ==
    /\ conf = [on |-> FALSE]
    /\ task = <<>>
    /\ Cache = {}
    /\ mwTokens = 0
    /\ mwCount = 0
    /\ mwStatus = [Pages |-> 0, Crawled |-> 0, Succeed |-> 0, Items |-> 0,
                   Files |-> 0, Reason |-> ""]
    /\ mwMain = [idx |-> 0, pc |-> "off", items |-> <<>>, itemLog |-> <<>>]

\* the third part of the module is not running
SiOff == si = [on |-> FALSE]

EngineInit ==
    /\ startURLs \in 0..MaxReq   \* any number of start URLs the budget allows
    /\ tokensCap \in 1..MaxReq   \* any gate size up to the number of requests
    /\ mainPc = "openUI"
    /\ startIdx = 0
    /\ mainReq = 0
    /\ lifecycle = [c \in {"UI", "SI", "DM", "SM", "IP"} |-> "new"]
    /\ closeReason = [c \in {"UI", "SI", "DM", "SM", "IP"} |-> "none"]
    /\ reqPc = [r \in ReqIds |-> "free"]
    /\ creator = [r \in ReqIds |-> 0]
    /\ nreq = 0
    /\ itemPc = [i \in ItemIds |-> "free"]
    /\ icreator = [i \in ItemIds |-> 0]
    /\ nitem = 0
    /\ requests = <<>>
    /\ reqClosed = FALSE
    /\ tokens = 0
    /\ done = <<>>
    /\ count = 0
    /\ waiterPc = "none"
    /\ StatusInfo = [Pages |-> 0, Crawled |-> 0, Succeed |-> 0, Items |-> 0,
                     Files |-> 0, Interrupted |-> FALSE, Reason |-> ""]
    /\ sigCh = 0
    /\ sigSent = 0
    /\ intrPc = "none"
    /\ flagVisible = FALSE
    /\ outcomes = [r \in ReqIds \cup {ItemThread(i) : i \in ItemIds} |-> <<>>]
    /\ intrDone = FALSE
    /\ lateYield = {}
    /\ lateItems = {}
    /\ adds = 0
    /\ dones = 0

Init == EngineInit /\ MwOff /\ SiOff


\* ---------------------------------------------------------------------------
\* Helpers
\* ---------------------------------------------------------------------------

\* mutant of Busy: the yielding thread does not wait for count.Add() to return
BusyNever(t) == FALSE

\* thread t is blocked inside count.Add() on behalf of a request or an item it
\* is yielding (addRequest / NewItem have not returned to it yet)
Busy(t) ==
    \/ \E r \in ReqIds : reqPc[r] = "adding" /\ creator[r] = t
    \/ \E i \in ItemIds : itemPc[i] = "adding" /\ icreator[i] = t

\* c.done <- v can proceed (buffer of capacity DoneCap; the receiver drains it)
DoneHasRoom == Len(done) < DoneCap

\* mutant of IsInterrupt: the flag is never observed
IsInterruptNever(s) == FALSE

\* StatusInfo.IsInterrupt: the read is under the mutex but the store in
\* Interrupt() is not, so nothing orders the two; the read returns the new
\* value only once the store has reached the reading goroutine
IsInterrupt(s) == s.Interrupted /\ flagVisible

\* mutant of AddCrawled: the increment is lost
AddCrawledSkip(s) == s

\* mutant of AddSucceed: the counter is not incremented
AddSucceedSkip(s) == s

\* mutant of AddPage: the increment is lost
AddPageSkip(s) == s

\* StatusInfo.Add*
AddPage(s)    == [s EXCEPT !.Pages = @ + 1]
AddCrawled(s) == [s EXCEPT !.Crawled = @ + 1]
AddSucceed(s) == [s EXCEPT !.Succeed = @ + 1]
AddItem(s)    == [s EXCEPT !.Items = @ + 1]
AddFiles(s)   == [s EXCEPT !.Files = @ + 1]

\* mutant of handleErr: the `return false` is missing
handleErrContinue(err) == TRUE

\* Crawler.handleErr: TRUE iff the caller goes on to the next step
handleErr(err) == err = "ok"

\* what handleErr records for the request: a drop is logged, any other error is
\* routed to the middleware's HandleErr
handleErrLog(err) ==
    IF err = "drop" THEN <<"drop">>
    ELSE IF err = "fail" THEN <<"fail">>
    ELSE <<>>

\* mutants of WaitBreak: the loop never leaves; the loop leaves one unit early
WaitBreakNever(c) == c < 0
WaitBreakEarly(c) == c <= 1

\* ConcurrentCount.Wait: the loop leaves after a done when count <= 0
WaitBreak(c) == c <= 0

\* mutant of GateHasRoom: the token is not awaited
GateAlwaysOpen == TRUE

\* c.tokens <- struct{}{} can proceed
GateHasRoom == tokens < tokensCap

\* mutant of RangeEnds: the dispatcher leaves as soon as the queue is empty
RangeEndsWhenEmpty == requests = <<>>

\* `for req := range c.requests` ends: the channel is closed and drained
RangeEnds == reqClosed /\ requests = <<>>

\* ---------------------------------------------------------------------------
\* Crawler.Crawl: opening
\* ---------------------------------------------------------------------------

\* UserInterrupt.Open: signal.Notify and the listener goroutine
MainOpenUI ==
    /\ mainPc = "openUI"
    /\ mainPc' = "openSI"
    /\ lifecycle' = [lifecycle EXCEPT !["UI"] = "open"]
    /\ intrPc' = "select"
    /\ UNCHANGED <<si, mwVars, closeReason, cfgVars, startIdx, mainReq, reqVars, itemVars, requests,
                   reqClosed, tokens, cntVars, StatusInfo, sigCh, sigSent,
                   flagVisible, intrDone, outcomes, lateYield, lateItems,
                   adds, dones>>

\* StatusInfo.Open: sets Reason = "Jobs completed"
MainOpenSI ==
    /\ mainPc = "openSI"
    /\ mainPc' = "openDM"
    /\ lifecycle' = [lifecycle EXCEPT !["SI"] = "open"]
    /\ StatusInfo' = [StatusInfo EXCEPT !.Reason = "Jobs completed"]
    /\ UNCHANGED <<si, mwVars, closeReason, cfgVars, startIdx, mainReq, reqVars, itemVars, requests,
                   reqClosed, tokens, cntVars, sigVars, outcomes, lateYield,
                   lateItems, adds, dones>>

MainOpenChain(pc, cat, next) ==
    /\ mainPc = pc
    /\ mainPc' = next
    /\ lifecycle' = [lifecycle EXCEPT ![cat] = "open"]
    /\ UNCHANGED <<si, mwVars, closeReason, cfgVars, startIdx, mainReq, reqVars, itemVars, requests,
                   reqClosed, tokens, cntVars, StatusInfo, sigVars, outcomes,
                   lateYield, lateItems, adds, dones>>

MainOpenDM == MainOpenChain("openDM", "DM", "openSM")
MainOpenSM == MainOpenChain("openSM", "SM", "openIP")
MainOpenIP == MainOpenChain("openIP", "IP", "check")

\* mutant of HasStartURLs: the start list is not looked at
HasStartURLsAlways == TRUE

\* len(spider.StartURLs) != 0
HasStartURLs == startURLs # 0

\* if len(spider.StartURLs) != 0 { go func() { c.count.Wait(); close(c.requests) }() ...
MainCheckStart ==
    /\ mainPc = "check"
    /\ IF HasStartURLs
         THEN mainPc' = "start" /\ waiterPc' = "wait"
         ELSE mainPc' = "closeIP" /\ waiterPc' = waiterPc
    /\ UNCHANGED <<si, mwVars, closeReason, cfgVars, startIdx, mainReq, lifecycle, reqVars, itemVars,
                   requests, reqClosed, tokens, done, count, StatusInfo, sigVars,
                   outcomes, lateYield, lateItems, adds, dones>>


\* ---------------------------------------------------------------------------
\* Yielder: Crawler.NewRequest / addRequest / NewItem, called by thread t
\* ---------------------------------------------------------------------------

\* mutant of addRequest: c.count.Add() is missing, the sender goroutine starts
\* at once
addRequestNoAdd(t) ==
    LET r == nreq + 1 IN
    /\ nreq' = r
    /\ creator' = [creator EXCEPT ![r] = t]
    /\ lateYield' = IF intrDone THEN lateYield \cup {r} ELSE lateYield
    /\ IF ~IsInterrupt(StatusInfo)
         THEN /\ StatusInfo' = AddPage(StatusInfo)
              /\ reqPc' = [reqPc EXCEPT ![r] = "sending"]
         ELSE /\ StatusInfo' = StatusInfo
              /\ reqPc' = [reqPc EXCEPT ![r] = "refused"]

\* addRequest up to the point where it blocks in c.count.Add(): the request is
\* refused when the crawler is interrupted, otherwise the page is counted.
\* (IsInterrupt and AddPage are two critical sections of the same mutex with
\* nothing in between; they are taken in one step.)
addRequest(t) ==
    LET r == nreq + 1 IN
    /\ nreq' = r
    /\ creator' = [creator EXCEPT ![r] = t]
    /\ lateYield' = IF intrDone THEN lateYield \cup {r} ELSE lateYield
    /\ IF ~IsInterrupt(StatusInfo)
         THEN /\ StatusInfo' = AddPage(StatusInfo)
              /\ reqPc' = [reqPc EXCEPT ![r] = "adding"]
         ELSE /\ StatusInfo' = StatusInfo
              /\ reqPc' = [reqPc EXCEPT ![r] = "refused"]

\* NewRequest: with a parent response the spider middlewares' ProcessNewRequest
\* hooks run first and any drop or error ends the call
NewRequest(t, hasParent) ==
    IF hasParent
      THEN \E res \in Results :
             IF handleErr(res)
               THEN addRequest(t)
               ELSE LET r == nreq + 1 IN
                    /\ nreq' = r
                    /\ creator' = [creator EXCEPT ![r] = t]
                    /\ lateYield' = IF intrDone THEN lateYield \cup {r} ELSE lateYield
                    /\ reqPc' = [reqPc EXCEPT ![r] = "droppedNew"]
                    /\ StatusInfo' = StatusInfo
      ELSE addRequest(t)

\* c.count.Add() of addRequest returns, and `go func() { c.requests <- req }()`
ReqAdd(r) ==
    /\ reqPc[r] = "adding"
    /\ DoneHasRoom
    /\ done' = Append(done, TRUE)
    /\ adds' = adds + 1
    /\ reqPc' = [reqPc EXCEPT ![r] = "sending"]
    /\ UNCHANGED <<si, mwVars, closeReason, cfgVars, mainVars, creator, nreq, itemVars, requests,
                   reqClosed, tokens, count, waiterPc, StatusInfo, sigVars,
                   outcomes, lateYield, lateItems, dones>>

\* the sender goroutine: c.requests <- req
ReqSend(r) ==
    /\ reqPc[r] = "sending"
    /\ ~reqClosed
    /\ Len(requests) < RequestsCap
    /\ requests' = Append(requests, r)
    /\ reqPc' = [reqPc EXCEPT ![r] = "queued"]
    /\ UNCHANGED <<si, mwVars, closeReason, cfgVars, mainVars, creator, nreq, itemVars, reqClosed,
                   tokens, cntVars, StatusInfo, sigVars, outcomes, lateYield,
                   lateItems, adds, dones>>

\* ---------------------------------------------------------------------------
\* Crawler.Crawl: start URLs and the dispatcher loop
\* ---------------------------------------------------------------------------

\* for _, req := range spider.StartURLs { c.addRequest(req) }
MainAddStart ==
    /\ mainPc = "start"
    /\ ~Busy(MainThread)
    /\ startIdx < startURLs
    /\ startIdx' = startIdx + 1
    /\ addRequest(MainThread)
    /\ UNCHANGED <<si, mwVars, closeReason, cfgVars, mainPc, mainReq, lifecycle, itemVars,
                   requests, reqClosed, tokens, cntVars, sigVars, outcomes,
                   lateItems, adds, dones>>

\* Crawl is at `for req := range c.requests`
MainAtRange ==
    \/ mainPc = "recv"
    \/ mainPc = "start" /\ startIdx = startURLs /\ ~Busy(MainThread)

\* the dispatcher receives the next request, or leaves the loop when the
\* queue is closed
MainRecv ==
    /\ MainAtRange
    /\ \/ /\ requests # <<>>
          /\ mainReq' = Head(requests)
          /\ requests' = Tail(requests)
          /\ reqPc' = [reqPc EXCEPT ![Head(requests)] = "taken"]
          /\ mainPc' = "token"
       \/ /\ RangeEnds
          /\ mainPc' = "closeIP"
          /\ UNCHANGED <<mainReq, requests, reqPc>>
    /\ UNCHANGED <<si, mwVars, closeReason, cfgVars, startIdx, lifecycle, creator, nreq, itemVars,
                   reqClosed, tokens, cntVars, StatusInfo, sigVars, outcomes,
                   lateYield, lateItems, adds, dones>>

\* crawl() starts with the download middlewares' ProcessRequest chain
FirstStage == "pre"

\* c.tokens <- struct{}{}; go func(_req) { c.crawl(_req, spider); ... }(req)
MainToken ==
    /\ mainPc = "token"
    /\ GateHasRoom
    /\ tokens' = tokens + 1
    /\ reqPc' = [reqPc EXCEPT ![mainReq] = FirstStage]
    /\ mainReq' = 0
    /\ mainPc' = "recv"
    /\ UNCHANGED <<si, mwVars, closeReason, cfgVars, startIdx, lifecycle, creator, nreq, itemVars, requests,
                   reqClosed, cntVars, StatusInfo, sigVars, outcomes, lateYield,
                   lateItems, adds, dones>>


\* ---------------------------------------------------------------------------
\* Crawler.crawl, run by the task goroutine of request r
\* ---------------------------------------------------------------------------

\* a middleware chain of crawl(): the loop calls the steps in order and stops
\* at the first one that does not return ok. The possible results, each with
\* the index of the step that returned it
RunChain(chain) ==
    {<<"ok", Len(chain)>>}
      \cup {<<res, k>> : res \in {"drop", "fail"}, k \in 1..Len(chain)}

\* m.ProcessRequest(req, spider) for the download middlewares, in order
TaskPre(r) ==
    /\ reqPc[r] = "pre"
    /\ \E out \in RunChain(DownloadMiddlewares) :
         /\ outcomes' = [outcomes EXCEPT ![r] = @ \o handleErrLog(out[1])]
         /\ reqPc' = [reqPc EXCEPT ![r] =
                        IF handleErr(out[1]) THEN "download" ELSE "doneSend"]
    /\ UNCHANGED <<si, mwVars, closeReason, cfgVars, mainVars, creator, nreq, itemVars, requests, reqClosed,
                   tokens, cntVars, StatusInfo, sigVars, lateYield, lateItems,
                   adds, dones>>

\* res := c.Downloader.Download(req, spider); AddCrawled; AddFiles for a file
\* request whose response carries a DropTaskError
TaskDownload(r) ==
    /\ reqPc[r] = "download"
    /\ \E isFile \in BOOLEAN, err \in {"nil", "drop", "other"} :
         StatusInfo' = IF isFile /\ err = "drop"
                         THEN AddFiles(AddCrawled(StatusInfo))
                         ELSE AddCrawled(StatusInfo)
    /\ reqPc' = [reqPc EXCEPT ![r] = "post"]
    /\ UNCHANGED <<si, mwVars, closeReason, cfgVars, mainVars, creator, nreq, itemVars, requests, reqClosed,
                   tokens, cntVars, sigVars, outcomes, lateYield, lateItems,
                   adds, dones>>

\* m.ProcessResponse(res, req, spider) for the download middlewares, in order
TaskPost(r) ==
    /\ reqPc[r] = "post"
    /\ ~Busy(r)
    /\ \E out \in RunChain(DownloadMiddlewares) :
         /\ outcomes' = [outcomes EXCEPT ![r] = @ \o handleErrLog(out[1])]
         /\ reqPc' = [reqPc EXCEPT ![r] =
                        IF handleErr(out[1]) THEN "spider" ELSE "doneSend"]
    /\ UNCHANGED <<si, mwVars, closeReason, cfgVars, mainVars, creator, nreq, itemVars, requests, reqClosed,
                   tokens, cntVars, StatusInfo, sigVars, lateYield, lateItems,
                   adds, dones>>

\* a download middleware that holds the Yielder (RetryMiddleware) calls
\* NewRequest(req, nil, spider) inside its ProcessResponse
TaskPostYield(r) ==
    /\ reqPc[r] = "post"
    /\ ~Busy(r)
    /\ nreq < MaxReq
    /\ NewRequest(r, FALSE)
    /\ UNCHANGED <<si, mwVars, closeReason, cfgVars, mainVars, itemVars, requests, reqClosed,
                   tokens, cntVars, sigVars, outcomes, lateItems, adds, dones>>

\* m.ProcessResponse(res, req, spider) for the spider middlewares, in order,
\* then parser, ok := c.Parsers[req.ParserName]: a missing parser is logged
\* and crawl() still reaches AddSucceed; otherwise the parser is called
TaskSpider(r) ==
    /\ reqPc[r] = "spider"
    /\ \E out \in RunChain(SpiderMiddlewares), found \in BOOLEAN :
         IF ~handleErr(out[1])
           THEN /\ reqPc' = [reqPc EXCEPT ![r] = "doneSend"]
                /\ outcomes' = [outcomes EXCEPT ![r] = @ \o handleErrLog(out[1])]
                /\ StatusInfo' = StatusInfo
           ELSE IF found
             THEN /\ reqPc' = [reqPc EXCEPT ![r] = "parser"]
                  /\ outcomes' = [outcomes EXCEPT ![r] =
                                    @ \o handleErrLog(out[1]) \o <<"parser">>]
                  /\ StatusInfo' = StatusInfo
             ELSE /\ reqPc' = [reqPc EXCEPT ![r] = "doneSend"]
                  /\ outcomes' = [outcomes EXCEPT ![r] =
                                    @ \o handleErrLog(out[1]) \o <<"noparser">>]
                  /\ StatusInfo' = AddSucceed(StatusInfo)
    /\ UNCHANGED <<si, mwVars, closeReason, cfgVars, mainVars, creator, nreq, itemVars, requests,
                   reqClosed, tokens, cntVars, sigVars, lateYield, lateItems,
                   adds, dones>>

\* the running parser yields a request with its response as the parent
ParserYieldRequest(r) ==
    /\ reqPc[r] = "parser"
    /\ ~Busy(r)
    /\ nreq < MaxReq
    /\ NewRequest(r, TRUE)
    /\ UNCHANGED <<si, mwVars, closeReason, cfgVars, mainVars, itemVars, requests, reqClosed,
                   tokens, cntVars, sigVars, outcomes, lateItems, adds, dones>>

\* mutant of NewItem: c.count.Add() is missing, the goroutine starts at once
NewItemNoAdd(t) ==
    LET i == nitem + 1 IN
    /\ nitem' = i
    /\ icreator' = [icreator EXCEPT ![i] = t]
    /\ lateItems' = IF intrDone THEN lateItems \cup {i} ELSE lateItems
    /\ StatusInfo' = AddItem(StatusInfo)
    /\ itemPc' = [itemPc EXCEPT ![i] = "run"]

\* NewItem up to the point where it blocks in c.count.Add(): AddItem
NewItem(t) ==
    LET i == nitem + 1 IN
    /\ nitem' = i
    /\ icreator' = [icreator EXCEPT ![i] = t]
    /\ lateItems' = IF intrDone THEN lateItems \cup {i} ELSE lateItems
    /\ StatusInfo' = AddItem(StatusInfo)
    /\ itemPc' = [itemPc EXCEPT ![i] = "adding"]

\* the running parser yields an item
ParserYieldItem(r) ==
    /\ reqPc[r] = "parser"
    /\ ~Busy(r)
    /\ nitem < MaxItems
    /\ NewItem(r)
    /\ UNCHANGED <<si, mwVars, closeReason, cfgVars, mainVars, reqVars, requests, reqClosed, tokens,
                   cntVars, sigVars, outcomes, lateYield, adds, dones>>

\* the parser returns; c.StatusInfo.AddSucceed(req); crawl() returns
ParserReturn(r) ==
    /\ reqPc[r] = "parser"
    /\ ~Busy(r)
    /\ StatusInfo' = AddSucceed(StatusInfo)
    /\ reqPc' = [reqPc EXCEPT ![r] = "doneSend"]
    /\ UNCHANGED <<si, mwVars, closeReason, cfgVars, mainVars, creator, nreq, itemVars, requests,
                   reqClosed, tokens, cntVars, sigVars, outcomes, lateYield,
                   lateItems, adds, dones>>

\* c.count.Done() of the task
TaskDone(r) ==
    /\ reqPc[r] = "doneSend"
    /\ DoneHasRoom
    /\ done' = Append(done, FALSE)
    /\ dones' = dones + 1
    /\ reqPc' = [reqPc EXCEPT ![r] = "release"]
    /\ UNCHANGED <<si, mwVars, closeReason, cfgVars, mainVars, creator, nreq, itemVars, requests,
                   reqClosed, tokens, count, waiterPc, StatusInfo, sigVars,
                   outcomes, lateYield, lateItems, adds>>

\* <-c.tokens
TaskRelease(r) ==
    /\ reqPc[r] = "release"
    /\ tokens' = tokens - 1
    /\ reqPc' = [reqPc EXCEPT ![r] = "finished"]
    /\ UNCHANGED <<si, mwVars, closeReason, cfgVars, mainVars, creator, nreq, itemVars, requests,
                   reqClosed, cntVars, StatusInfo, sigVars, outcomes, lateYield,
                   lateItems, adds, dones>>


\* ---------------------------------------------------------------------------
\* Crawler.NewItem: the pipeline goroutine of item i
\* ---------------------------------------------------------------------------

\* c.count.Add() of NewItem returns, and the pipeline goroutine is started
ItemAdd(i) ==
    /\ itemPc[i] = "adding"
    /\ DoneHasRoom
    /\ done' = Append(done, TRUE)
    /\ adds' = adds + 1
    /\ itemPc' = [itemPc EXCEPT ![i] = "run"]
    /\ UNCHANGED <<si, mwVars, closeReason, cfgVars, mainVars, reqVars, icreator, nitem, requests,
                   reqClosed, tokens, count, waiterPc, StatusInfo, sigVars,
                   outcomes, lateYield, lateItems, dones>>

\* mutant of ProcessItem: the loop goes on after a pipeline returned an error
ProcessItemNoBreak ==
    {[k \in 1..Len(ItemPipelines) |-> <<ItemPipelines[k], f[k]>>] :
        f \in [1..Len(ItemPipelines) -> Results]}

\* for _, p := range c.ItemPipelines { if err := p.Process(item, spider);
\* err != nil { ...; break } }: the calls one item task can make, each with its
\* result; the first error (DropItemError logged, any other routed to
\* HandleErr) breaks the loop
ProcessItem ==
    {[k \in 1..out[2] |-> <<ItemPipelines[k], IF k = out[2] THEN out[1] ELSE "ok">>] :
        out \in RunChain(ItemPipelines)}

\* the goroutine of NewItem runs the pipeline loop
ItemStep(i) ==
    /\ itemPc[i] = "run"
    /\ ~Busy(ItemThread(i))
    /\ \E log \in ProcessItem :
         outcomes' = [outcomes EXCEPT ![ItemThread(i)] = log]
    /\ itemPc' = [itemPc EXCEPT ![i] = "doneSend"]
    /\ UNCHANGED <<si, mwVars, closeReason, cfgVars, mainVars, reqVars, icreator, nitem, requests,
                   reqClosed, tokens, cntVars, StatusInfo, sigVars,
                   lateYield, lateItems, adds, dones>>

\* a pipeline that holds the Yielder (FilePipeline) calls
\* NewRequest(fileRequest, nil, spider) inside Process
ItemYield(i) ==
    /\ itemPc[i] = "run"
    /\ ~Busy(ItemThread(i))
    /\ nreq < MaxReq
    /\ NewRequest(ItemThread(i), FALSE)
    /\ UNCHANGED <<si, mwVars, closeReason, cfgVars, mainVars, itemVars, requests, reqClosed,
                   tokens, cntVars, sigVars, outcomes, lateItems, adds, dones>>

\* c.count.Done() of the pipeline goroutine, which then ends
ItemDone(i) ==
    /\ itemPc[i] = "doneSend"
    /\ DoneHasRoom
    /\ done' = Append(done, FALSE)
    /\ dones' = dones + 1
    /\ itemPc' = [itemPc EXCEPT ![i] = "finished"]
    /\ outcomes' = [outcomes EXCEPT ![ItemThread(i)] = <<>>]
    /\ UNCHANGED <<si, mwVars, closeReason, cfgVars, mainVars, reqVars, icreator, nitem, requests,
                   reqClosed, tokens, count, waiterPc, StatusInfo, sigVars,
                   lateYield, lateItems, adds>>

\* ---------------------------------------------------------------------------
\* ConcurrentCount.Wait and close(c.requests)
\* ---------------------------------------------------------------------------

\* one iteration of the loop of Wait
WaiterRecv ==
    /\ waiterPc = "wait"
    /\ done # <<>>
    /\ done' = Tail(done)
    /\ IF Head(done)
         THEN /\ count' = count + 1
              /\ waiterPc' = "wait"
         ELSE /\ count' = count - 1
              /\ waiterPc' = IF WaitBreak(count - 1) THEN "close" ELSE "wait"
    /\ UNCHANGED <<si, mwVars, closeReason, cfgVars, mainVars, reqVars, itemVars, requests, reqClosed,
                   tokens, StatusInfo, sigVars, outcomes, lateYield, lateItems,
                   adds, dones>>

\* close(c.requests)
WaiterClose ==
    /\ waiterPc = "close"
    /\ reqClosed' = TRUE
    /\ waiterPc' = "exit"
    /\ UNCHANGED <<si, mwVars, closeReason, cfgVars, mainVars, reqVars, itemVars, requests, tokens, done,
                   count, StatusInfo, sigVars, outcomes, lateYield, lateItems,
                   adds, dones>>

\* ---------------------------------------------------------------------------
\* UserInterrupt
\* ---------------------------------------------------------------------------

\* the OS delivers an interrupt; signal.Notify drops it when the channel is full
SignalArrive ==
    /\ lifecycle["UI"] # "new"
    /\ mainPc # "returned"
    /\ sigSent < MaxSignals
    /\ sigSent' = sigSent + 1
    /\ sigCh' = IF sigCh < InterruptCap THEN sigCh + 1 ELSE sigCh
    /\ UNCHANGED <<si, mwVars, closeReason, cfgVars, mainVars, reqVars, itemVars, requests, reqClosed,
                   tokens, cntVars, StatusInfo, intrPc, flagVisible, intrDone,
                   outcomes, lateYield, lateItems, adds, dones>>

\* case <-u.interrupt: StatusInfo.Interrupt() stores Interrupted = true (the store
\* is not under the mutex; an IsInterrupt in another goroutine sees it or not)
InterruptSetFlag ==
    /\ intrPc = "select"
    /\ sigCh > 0
    /\ sigCh' = sigCh - 1
    /\ StatusInfo' = [StatusInfo EXCEPT !.Interrupted = TRUE]
    /\ intrPc' = "reason"
    /\ UNCHANGED <<si, mwVars, closeReason, cfgVars, mainVars, reqVars, itemVars, requests, reqClosed,
                   tokens, cntVars, sigSent, flagVisible, intrDone, outcomes,
                   lateYield, lateItems, adds, dones>>

\* the store to Interrupted becomes visible to the goroutines that read it; no
\* lock, channel or atomic operation ties this to the return of Interrupt()
InterruptVisible ==
    /\ StatusInfo.Interrupted
    /\ ~flagVisible
    /\ flagVisible' = TRUE
    /\ UNCHANGED <<si, mwVars, closeReason, cfgVars, mainVars, reqVars, itemVars, requests, reqClosed,
                   tokens, cntVars, StatusInfo, sigCh, sigSent, intrPc, intrDone,
                   outcomes, lateYield, lateItems, adds, dones>>

\* StatusInfo.Interrupt() stores Reason and returns
InterruptSetReason ==
    /\ intrPc = "reason"
    /\ StatusInfo' = [StatusInfo EXCEPT !.Reason = "User interrupted"]
    /\ intrPc' = "select"
    /\ intrDone' = TRUE
    /\ UNCHANGED <<si, mwVars, closeReason, cfgVars, mainVars, reqVars, itemVars, requests, reqClosed,
                   tokens, cntVars, sigCh, sigSent, flagVisible, outcomes,
                   lateYield, lateItems, adds, dones>>

\* ---------------------------------------------------------------------------
\* Crawler.Crawl: closing
\* ---------------------------------------------------------------------------

\* x.Close(c.StatusInfo.Reason, spider): the field is read at each call
MainCloseStep(pc, cat, next) ==
    /\ mainPc = pc
    /\ mainPc' = next
    /\ lifecycle' = [lifecycle EXCEPT ![cat] = "closed"]
    /\ closeReason' = [closeReason EXCEPT ![cat] = StatusInfo.Reason]
    /\ UNCHANGED <<si, mwVars, cfgVars, startIdx, mainReq, reqVars, itemVars, requests,
                   reqClosed, tokens, cntVars, StatusInfo, sigVars, outcomes,
                   lateYield, lateItems, adds, dones>>

MainCloseIP == MainCloseStep("closeIP", "IP", "closeSM")
MainCloseSM == MainCloseStep("closeSM", "SM", "closeDM")
MainCloseDM == MainCloseStep("closeDM", "DM", "closeUI")

\* UserInterrupt.Close: u.closed <- true, received by the listener at its select
MainCloseUI ==
    /\ intrPc = "select"
    /\ MainCloseStep("closeUI", "UI", "closeSI")

\* StatusInfo.Close: the final report; Crawl returns
MainCloseSI == MainCloseStep("closeSI", "SI", "returned")

Next ==
    \/ MainOpenUI \/ MainOpenSI \/ MainOpenDM \/ MainOpenSM \/ MainOpenIP
    \/ MainCheckStart \/ MainAddStart \/ MainRecv \/ MainToken
    \/ \E r \in ReqIds :
         \/ ReqAdd(r) \/ ReqSend(r)
         \/ TaskPre(r) \/ TaskDownload(r) \/ TaskPost(r) \/ TaskPostYield(r)
         \/ TaskSpider(r)
         \/ ParserYieldRequest(r) \/ ParserYieldItem(r) \/ ParserReturn(r)
         \/ TaskDone(r) \/ TaskRelease(r)
    \/ \E i \in ItemIds :
         \/ ItemAdd(i) \/ ItemStep(i) \/ ItemYield(i) \/ ItemDone(i)
    \/ WaiterRecv \/ WaiterClose
    \/ SignalArrive \/ InterruptSetFlag \/ InterruptVisible \/ InterruptSetReason
    \/ MainCloseIP \/ MainCloseSM \/ MainCloseDM \/ MainCloseUI \/ MainCloseSI

Spec == Init /\ [][Next]_vars

\* the steps of the program's goroutines (the environment's signal excluded)
CrawlNext == Next /\ sigSent' = sigSent

\* every goroutine that can take a step eventually takes one; the operating
\* system is not obliged to send a signal
FairSpec == Spec /\ WF_vars(CrawlNext)


\* ---------------------------------------------------------------------------
\* Derived notions
\* ---------------------------------------------------------------------------

\* request r has passed the interrupted check of addRequest
Admitted(r) == reqPc[r] \notin {"free", "refused", "droppedNew"}

\* request r has entered c.requests
Enqueued(r) == Admitted(r) /\ reqPc[r] \notin {"adding", "sending"}

\* the task goroutine of r is inside crawl()
InCrawl(r) == reqPc[r] \in {"pre", "download", "post", "spider", "parser"}

\* an admitted request whose task has not completed count.Done(), or an item
\* whose pipeline goroutine has not
OutstandingReq(r)  == Admitted(r) /\ reqPc[r] \notin {"release", "finished"}
OutstandingItem(i) == itemPc[i] \in {"adding", "run", "doneSend"}
NoOutstanding ==
    /\ \A r \in ReqIds : ~OutstandingReq(r)
    /\ \A i \in ItemIds : ~OutstandingItem(i)

Returned == mainPc = "returned"

\* ---------------------------------------------------------------------------
\* Properties
\* ---------------------------------------------------------------------------

\* C1: when every call returns and finitely many requests and items are
\* emitted, a crawl that is not interrupted eventually returns from Crawl
\* under fair scheduling, for every number of start URLs and every gate size;
\* in particular no state with outstanding work has all goroutines blocked.
C1_Termination == <>(Returned \/ sigSent > 0)

C1_Witness ==
    /\ Returned /\ sigSent = 0 /\ startURLs > 0
    /\ tokensCap = 1
    /\ \E r \in ReqIds : creator[r] \in ReqIds /\ reqPc[r] = "finished"

\* C2: the request queue is closed only when no unit of work is outstanding:
\* every admitted request has completed crawl() and its Done, no sender
\* goroutine is waiting, no item pipeline goroutine is running.
C2_NoPrematureDrain == reqClosed => NoOutstanding

C2_Witness ==
    /\ reqClosed /\ ~Returned
    /\ nreq = MaxReq /\ nitem = MaxItems
    /\ \A r \in ReqIds : Admitted(r)

\* C3: at most ConcurrentRequests tasks are inside crawl() at any time.
C3_ConcurrencyBound ==
    Cardinality({r \in ReqIds : InCrawl(r)}) <= tokensCap

C3_Witness ==
    /\ tokensCap = 1
    /\ mainPc = "token"
    /\ \E r \in ReqIds : reqPc[r] = "download"

\* C4: a NewRequest call that starts after StatusInfo.Interrupt() has returned
\* leaves Pages and the in-flight counter unchanged and enqueues nothing: the
\* request is refused (or dropped by a ProcessNewRequest hook), never admitted.
C4_LateYieldRefused ==
    \A r \in lateYield : reqPc[r] \in {"refused", "droppedNew"}

\* C5: if the interrupt is delivered at any point after the listeners are
\* opened, Crawl still eventually returns.
C5_InterruptTermination == <>Returned

ClaimedOutcomes == {"parser", "drop", "fail"}
CodeOutcomes    == ClaimedOutcomes \cup {"noparser"}

C8_CountersOrderedMonotonic ==
    /\ [](/\ StatusInfo.Pages >= StatusInfo.Crawled
          /\ StatusInfo.Crawled >= StatusInfo.Succeed
          /\ StatusInfo.Succeed >= 0)
    /\ [][/\ StatusInfo'.Pages >= StatusInfo.Pages
          /\ StatusInfo'.Crawled >= StatusInfo.Crawled
          /\ StatusInfo'.Succeed >= StatusInfo.Succeed
          /\ StatusInfo'.Items >= StatusInfo.Items
          /\ StatusInfo'.Files >= StatusInfo.Files]_vars

C8_Witness ==
    /\ StatusInfo.Pages = 2 /\ StatusInfo.Crawled = 2 /\ StatusInfo.Succeed = 1
    /\ StatusInfo.Items = 1 /\ StatusInfo.Files = 1

\* C9: whenever Crawl returns the in-flight counter reads zero: as many Add as
\* Done calls have completed, none is pending in the channel or blocked.
C9_CounterZeroAtReturn ==
    Returned =>
      /\ count = 0
      /\ adds = dones
      /\ done = <<>>
      /\ \A r \in ReqIds : reqPc[r] \notin {"adding", "doneSend"}
      /\ \A i \in ItemIds : itemPc[i] \notin {"adding", "doneSend"}

C9_Witness ==
    Returned /\ adds = MaxReq + MaxItems /\ count = 0

\* C10: while a task is inside a download middleware's ProcessRequest or
\* ProcessResponse, a spider middleware's ProcessResponse or (from a parser)
\* ProcessNewRequest, or an item pipeline's Process, that component has been
\* opened and its Close has not started.
C10_OpenBeforeProcessBeforeClose ==
    /\ (\E r \in ReqIds : reqPc[r] \in {"pre", "post"}) => lifecycle["DM"] = "open"
    /\ (\E r \in ReqIds : reqPc[r] \in {"spider", "parser"}) => lifecycle["SM"] = "open"
    /\ (\E i \in ItemIds : itemPc[i] = "run") => lifecycle["IP"] = "open"

C10_Witness ==
    /\ \E r \in ReqIds : reqPc[r] = "post"
    /\ \E i \in ItemIds : itemPc[i] = "run"
    /\ lifecycle["DM"] = "open" /\ lifecycle["IP"] = "open"

\* ===========================================================================
\* Second part: one crawl with the default middlewares
\*
\* The chains are the ones CreateCrawlerBuilder / DefaultConfig register
\* (OffSite, Delay, Retry, Cache; HttpError, ReferenceURL, Depth) followed by
\* one user middleware in each chain. The queue, the in-flight counter and the
\* gate are kept to what the middlewares can observe: a request is counted and
\* queued by addRequest in one step, the dispatcher starts any queued request
\* when a token is free, and Crawl returns when the counter is back at zero.
\* No interrupt is delivered.
\* ===========================================================================

\* ---- bounds of the second part
MaxTasks      == 5   \* NewRequest calls in one crawl: start URLs, retries, children
MaxRetryTimes == 3   \* largest RetryTimes setting
MaxDepthLimit == 2   \* largest DepthLimit setting
MaxFail       == 2   \* attempts of one URL the Downloader fails before it answers

TaskIds == 1..MaxTasks

\* urls are paths; a parser's child url extends the url of its response
UrlA == <<"a">>
UrlB == <<"b">>
Child(url) == Append(url, "c")

\* a url on a third site, a url that url.Parse rejects, and the url an item
\* names in its fileurls
UrlN    == <<"n">>
UrlBad  == <<"%">>
UrlFile == <<"a", "x.jpg">>

\* url.Parse(req.URL): whether it succeeds, and u.Host (a string of characters)
Parses(url) == url[1] # "%"
Host(url) ==
    CASE url[1] = "a" -> <<"a", ".", "c", "o", "m">>
      [] url[1] = "b" -> <<"b", ".", "c", "o", "m">>
      [] url[1] = "n" -> <<"n", "a", ".", "c", "o", "m">>
      [] OTHER        -> <<>>

\* the domain "a.com" of spider.AllowedDomains
DomA == <<"a", ".", "c", "o", "m">>

\* the start url lists tried
StartLists == {<<>>, <<UrlA>>, <<UrlA, UrlA>>, <<UrlA, UrlB>>}

\* mutant of DefaultDownloadMiddlewares: Cache is registered before Retry
CacheBeforeRetry == <<"OffSite", "Delay", "Cache", "Retry", "UserDM">>

\* DefaultConfig: the registered chains, a user middleware appended to each
DefaultDownloadMiddlewares == <<"OffSite", "Delay", "Retry", "Cache", "UserDM">>
DefaultSpiderMiddlewares   == <<"HttpError", "ReferenceURL", "Depth", "UserSM">>

\* what the user middlewares do: nothing, or one hook of one of them returns a
\* DropTaskError ("drop") or another error ("fail") on every call
UserChoices ==
    {[mw |-> "none", hook |-> "none", res |-> "ok"]}
      \cup {[mw |-> "UserDM", hook |-> h, res |-> r] :
              h \in {"ProcessRequest", "ProcessResponse"}, r \in {"drop", "fail"}}
      \cup {[mw |-> "UserSM", hook |-> h, res |-> r] :
              h \in {"ProcessResponse", "ProcessNewRequest"}, r \in {"drop", "fail"}}

\* the pipelines of the crawl: FilePipeline, then one of the user
DefaultItemPipelines == <<"FilePipeline", "UserIP">>

\* a user step that returns the drop error of the other chain (a middleware
\* hook a DropItemError, "dropItem"; the pipeline a DropTaskError), and the
\* user pipeline returning its own drop or another error
CrossChoices ==
    {[mw |-> "UserDM", hook |-> h, res |-> "dropItem"] :
        h \in {"ProcessRequest", "ProcessResponse"}}
      \cup {[mw |-> "UserSM", hook |-> h, res |-> "dropItem"] :
              h \in {"ProcessResponse", "ProcessNewRequest"}}
      \cup {[mw |-> "UserIP", hook |-> "Process", res |-> r] :
              r \in {"drop", "dropItem", "fail"}}

\* context.go / DefaultConfig: the default settings, one start url, a
\* Downloader that answers, a parser that yields nothing
DefaultConf ==
    [on |-> TRUE,
     StartURLs |-> <<UrlA>>,
     ConcurrentRequests |-> 1,
     RetryEnabled |-> TRUE,
     RetryTimes |-> MaxRetryTimes,
     DepthLimit |-> 0,
     failFirst |-> 0,
     alwaysFail |-> FALSE,
     child |-> FALSE,
     user |-> [mw |-> "none", hook |-> "none", res |-> "ok"],
     AllowedDomains |-> <<>>,     \* spider.AllowedDomains
     startType |-> "none",        \* Meta["__type__"] of the start requests
     write |-> "drop",            \* what FileWriter.WriteFile returns
     item |-> "none",             \* the item the parser yields per page
     fileExists |-> FALSE]        \* the file of UrlFile exists with >= 512 bytes

\* crawls of sites without a domain filter, file requests or items
BaseConfs ==
    {[DefaultConf EXCEPT !.StartURLs = s, !.ConcurrentRequests = n,
                         !.RetryEnabled = re, !.RetryTimes = rt,
                         !.DepthLimit = dl, !.failFirst = ff,
                         !.alwaysFail = af, !.child = ch, !.user = u] :
        s \in StartLists, n \in 1..2, re \in BOOLEAN, rt \in 0..MaxRetryTimes,
        dl \in 0..MaxDepthLimit, ff \in 0..MaxFail, af \in BOOLEAN,
        ch \in BOOLEAN, u \in UserChoices}

\* crawls with a domain filter, with a start url that does not parse, with
\* start requests marked as file requests, with a parser that yields
\* items, and with a user step that returns the other chain's drop error
ExtraConfs ==
    {[DefaultConf EXCEPT !.AllowedDomains = <<DomA>>, !.StartURLs = s,
                         !.ConcurrentRequests = n, !.child = ch] :
        s \in {<<UrlB>>, <<UrlA, UrlB>>, <<UrlN>>}, n \in 1..2, ch \in BOOLEAN}
    \cup
    {[DefaultConf EXCEPT !.StartURLs = s, !.AllowedDomains = ad,
                         !.ConcurrentRequests = n,
                         !.RetryEnabled = re, !.RetryTimes = rt] :
        s \in {<<UrlBad>>, <<UrlA, UrlBad>>}, ad \in {<<>>, <<DomA>>},
        n \in 1..2, re \in BOOLEAN, rt \in 0..MaxRetryTimes}
    \cup
    {[DefaultConf EXCEPT !.startType = "file", !.StartURLs = s, !.write = w,
                         !.ConcurrentRequests = n, !.failFirst = ff,
                         !.RetryEnabled = re,
                         !.RetryTimes = IF re THEN MaxRetryTimes ELSE 0] :
        s \in {<<UrlA>>, <<UrlA, UrlB>>}, w \in {"drop", "other", "nil"},
        n \in 1..2, ff \in 0..1, re \in BOOLEAN}
    \cup
    {[DefaultConf EXCEPT !.item = it, !.fileExists = fe,
                         !.ConcurrentRequests = n] :
        it \in {"plain", "files"}, fe \in BOOLEAN, n \in 1..2}
    \cup
    {[DefaultConf EXCEPT !.user = u, !.child = ch /\ u.mw # "UserIP",
                         !.item = IF u.mw = "UserIP" THEN "plain" ELSE "none",
                         !.ConcurrentRequests = n] :
        u \in CrossChoices, ch \in BOOLEAN, n \in 1..2}

\* the settings of one crawl
Confs == BaseConfs \cup ExtraConfs

\* a request that has not been yielded
FreeTask ==
    [pc |-> "free", url |-> <<>>, retry |-> 0, depth |-> 0, parent |-> 0,
     __type__ |-> "none", type |-> "none",
     origin |-> "none", err |-> "none", status |-> 0, succ |-> FALSE,
     steps |-> <<>>, newSteps |-> <<>>, handled |-> <<>>, dones |-> 0,
     obj |-> 0]

MwInit ==
    /\ EngineInit
    /\ startURLs = 0
    /\ tokensCap = 1
    /\ conf \in Confs
    \* settings the code never reads are kept at one value
    /\ conf.alwaysFail => conf.failFirst = 0
    /\ ~conf.RetryEnabled => conf.RetryTimes = 0
    /\ ~conf.child => conf.DepthLimit = 0
    /\ task = [id \in TaskIds |-> FreeTask]
    /\ Cache = {}
    /\ mwTokens = 0
    /\ mwCount = 0
    \* StatusInfo.Open has run
    /\ mwStatus = [Pages |-> 0, Crawled |-> 0, Succeed |-> 0, Items |-> 0,
                   Files |-> 0, Reason |-> "Jobs completed", RunningPages |-> {}]
    /\ mwMain = [idx |-> 0, pc |-> "check", items |-> <<>>, itemLog |-> <<>>]
    /\ SiOff

\* the next unused request id (MaxTasks + 1 when none is left)
NextId == Cardinality({id \in TaskIds : task[id].pc # "free"}) + 1

\* ---------------------------------------------------------------------------
\* The default middlewares
\* ---------------------------------------------------------------------------

\* CacheMiddleware.ProcessRequest: drop when the url is in the cache
CacheProcessRequest(url) == IF url \in Cache THEN "drop" ELSE "ok"

\* mutant of isRetriable: no request is retriable
isRetriableNever(retry) == [retriable |-> FALSE, retry |-> retry]

\* RetryMiddleware.isRetriable on meta.retry (0 stands for an unset key): whether
\* the request is retried, and meta.retry afterwards
isRetriable(retry) ==
    IF conf.RetryEnabled
      THEN IF retry # 0 /\ retry < conf.RetryTimes
             THEN [retriable |-> TRUE, retry |-> retry + 1]
             ELSE IF retry = 0
               THEN [retriable |-> TRUE, retry |-> 1]
               ELSE [retriable |-> FALSE, retry |-> retry]
      ELSE [retriable |-> FALSE, retry |-> retry]

\* mutant of RetryProcessResponse: after yielding the request again the
\* middleware returns nil and the loop of crawl() goes on
RetryProcessResponseNoDrop(err, retry) ==
    IF err = "nil" THEN [result |-> "ok", yield |-> FALSE, retry |-> retry]
    ELSE IF err = "drop" THEN [result |-> "drop", yield |-> FALSE, retry |-> retry]
    ELSE [result |-> IF isRetriable(retry).retriable THEN "ok" ELSE "drop",
          yield |-> isRetriable(retry).retriable,
          retry |-> isRetriable(retry).retry]

\* RetryMiddleware.ProcessResponse on res.Err and meta.retry: the result, whether
\* NewRequest(req, nil, spider) is called, and meta.retry afterwards
RetryProcessResponse(err, retry) ==
    IF err = "nil" THEN [result |-> "ok", yield |-> FALSE, retry |-> retry]
    ELSE IF err = "drop" THEN [result |-> "drop", yield |-> FALSE, retry |-> retry]
    ELSE [result |-> "drop", yield |-> isRetriable(retry).retriable,
          retry |-> isRetriable(retry).retry]

\* HttpErrorMiddleware.ProcessResponse
HttpErrorProcessResponse(status) == IF status # 200 THEN "drop" ELSE "ok"

\* mutant of DepthProcessResponse: the depth of a start response stays unset
DepthProcessResponseKeep(depth) == depth

\* DepthMiddleware.ProcessResponse: res.Meta["depth"] afterwards (0 = unset)
DepthProcessResponse(depth) == IF depth = 0 THEN 1 ELSE depth

\* mutant of DepthProcessNewRequest: the limit is not applied
DepthProcessNewRequestNoLimit(parentDepth) ==
    [depth |-> parentDepth + 1, result |-> "ok"]

\* DepthMiddleware.ProcessNewRequest: the depth written to the new request
\* and the result
DepthProcessNewRequest(parentDepth) ==
    [depth |-> parentDepth + 1,
     result |-> IF conf.DepthLimit # 0 /\ parentDepth + 1 > conf.DepthLimit
                  THEN "drop" ELSE "ok"]

\* strings.HasSuffix(s, suffix)
HasSuffix(s, suffix) ==
    /\ Len(s) >= Len(suffix)
    /\ SubSeq(s, Len(s) - Len(suffix) + 1, Len(s)) = suffix

\* mutant of OffSiteProcessRequest: the filter drops nothing
OffSiteProcessRequestPass(url) == "ok"

\* OffSiteMiddleware.ProcessRequest: a url that url.Parse rejects passes; a
\* parsed one is dropped when AllowedDomains is not empty and its host ends
\* with none of the domains
OffSiteProcessRequest(url) ==
    IF Parses(url)
      THEN LET matches == {i \in 1..Len(conf.AllowedDomains) :
                             HasSuffix(Host(url), conf.AllowedDomains[i])}
               offsite == Len(conf.AllowedDomains) # 0 /\ matches = {}
           IN  IF offsite THEN "drop" ELSE "ok"
      ELSE "ok"

\* what hook `hook` of middleware m returns for request t
HookResult(m, hook, t) ==
    IF m = conf.user.mw /\ hook = conf.user.hook THEN conf.user.res
    ELSE IF m = "OffSite" /\ hook = "ProcessRequest" THEN OffSiteProcessRequest(t.url)
    ELSE IF m = "Cache" /\ hook = "ProcessRequest" THEN CacheProcessRequest(t.url)
    ELSE IF m = "Retry" /\ hook = "ProcessResponse"
      THEN RetryProcessResponse(t.err, t.retry).result
    ELSE IF m = "HttpError" /\ hook = "ProcessResponse"
      THEN HttpErrorProcessResponse(t.status)
    ELSE IF m = "Depth" /\ hook = "ProcessNewRequest"
      THEN DepthProcessNewRequest(t.depth).result
    ELSE "ok"   \* BaseMiddleware, Delay

\* ---------------------------------------------------------------------------
\* Chains: the loops of crawl() and NewRequest()
\* ---------------------------------------------------------------------------

\* mutant of RangeOver: the chain is walked backwards
RangeReversed(chain) == [i \in 1..Len(chain) |-> chain[Len(chain) + 1 - i]]

\* `for _, m := range chain`: the order in which the loop visits the chain
RangeOver(chain) == chain

\* the first position of the loop whose hook does not return ok
\* (Len(chain) + 1 when every hook returns ok)
StopAt(chain, hook, t) ==
    LET c   == RangeOver(chain)
        bad == {i \in 1..Len(c) : HookResult(c[i], hook, t) # "ok"}
    IN  IF bad = {} THEN Len(c) + 1
        ELSE CHOOSE i \in bad : \A j \in bad : i <= j

\* the calls the loop makes, in order, each with its result: the loop returns
\* at the first result handleErr does not let pass
RunHooks(chain, hook, t) ==
    LET c == RangeOver(chain)
        s == StopAt(chain, hook, t)
        n == IF s > Len(c) THEN Len(c) ELSE s
    IN  [i \in 1..n |-> [mw |-> c[i], hook |-> hook,
                         res |-> HookResult(c[i], hook, t)]]

\* the result the loop ends with, and whether it called middleware m
ChainResult(log) == IF log = <<>> THEN "ok" ELSE log[Len(log)].res
Ran(m, log) == \E i \in 1..Len(log) : log[i].mw = m

\* mutant of HandledBy: a drop is routed to HandleErr as well
HandledByAlways(log) ==
    IF ChainResult(log) # "ok" THEN <<log[Len(log)].mw>> ELSE <<>>

\* mutant of HandledBy: the drop error of the item pipeline passes for a drop
HandledByAnyDrop(log) ==
    IF ChainResult(log) = "fail" THEN <<log[Len(log)].mw>> ELSE <<>>

\* Crawler.handleErr: the HandleErr calls it makes for the loop's last result;
\* only a *DropTaskError is logged as a drop
HandledBy(log) ==
    IF ChainResult(log) \notin {"ok", "drop"} THEN <<log[Len(log)].mw>> ELSE <<>>

\* the switch in the goroutine of NewItem: the HandleErr calls it makes for
\* the loop's last result; only a *DropItemError is logged as a drop
ItemHandledBy(log) ==
    IF ChainResult(log) \notin {"ok", "dropItem"} THEN <<log[Len(log)].mw>> ELSE <<>>

\* mutant of NewRequestHooks: the hooks run without a parent response too
NewRequestHooksAlways(hasParent) == DefaultSpiderMiddlewares

\* Crawler.NewRequest: the ProcessNewRequest hooks run only with a parent
NewRequestHooks(hasParent) ==
    IF hasParent THEN DefaultSpiderMiddlewares ELSE <<>>

\* Crawler.NewRequest followed by addRequest, for a request with the given url
\* and meta, yielded with the response of request `parent` (0: nil): the
\* record of the new request. It is queued unless a hook stopped it.
MwNewRequest(url, retry, depth, parent, origin) ==
    LET res == IF parent # 0 THEN task[parent] ELSE FreeTask
        log == RunHooks(NewRequestHooks(parent # 0), "ProcessNewRequest", res)
    IN  [FreeTask EXCEPT
           !.pc = IF handleErr(ChainResult(log)) THEN "queued" ELSE "droppedNew",
           !.url = url,
           !.retry = retry,
           !.depth = IF Ran("Depth", log)
                       THEN DepthProcessNewRequest(res.depth).depth ELSE depth,
           !.parent = parent,
           !.origin = origin,
           !.newSteps = log,
           !.handled = HandledBy(log),
           !.obj = NextId]

\* addRequest for a record made by MwNewRequest: AddPage and count.Add()
MwPagesAfter(new) == IF new.pc = "queued" THEN AddPage(mwStatus) ELSE mwStatus
MwCountAfter(new) == IF new.pc = "queued" THEN mwCount + 1 ELSE mwCount

engineVars == <<cfgVars, mainVars, reqVars, itemVars, requests, reqClosed, tokens,
                cntVars, StatusInfo, sigVars, outcomes, lateYield, lateItems,
                adds, dones, closeReason>>

\* ---------------------------------------------------------------------------
\* Crawler.Crawl
\* ---------------------------------------------------------------------------

\* if len(spider.StartURLs) != 0 { ... }: without start URLs Crawl goes on to
\* close the components and returns
MwCheckStart ==
    /\ mwMain.pc = "check"
    /\ mwMain' = [mwMain EXCEPT !.pc = IF Len(conf.StartURLs) # 0
                                        THEN "start" ELSE "returned"]
    /\ UNCHANGED <<si, engineVars, conf, task, Cache, mwTokens, mwCount, mwStatus>>

\* for _, req := range spider.StartURLs { c.addRequest(req) }
MwAddStart ==
    /\ mwMain.pc = "start"
    /\ mwMain.idx < Len(conf.StartURLs)
    /\ NextId <= MaxTasks
    /\ LET new == [MwNewRequest(conf.StartURLs[mwMain.idx + 1], 0, 0, 0, "start")
                     EXCEPT !.__type__ = conf.startType]
       IN  /\ task' = [task EXCEPT ![NextId] = new]
           /\ mwStatus' = MwPagesAfter(new)
           /\ mwCount' = MwCountAfter(new)
    /\ mwMain' = [mwMain EXCEPT
                    !.idx = mwMain.idx + 1,
                    !.pc = IF mwMain.idx + 1 = Len(conf.StartURLs)
                             THEN "range" ELSE "start"]
    /\ UNCHANGED <<si, engineVars, conf, Cache, mwTokens>>

\* for req := range c.requests { c.tokens <- struct{}{}; go func ... }
MwDispatch(id) ==
    /\ mwMain.pc = "range"
    /\ task[id].pc = "queued"
    /\ mwTokens < conf.ConcurrentRequests
    /\ mwTokens' = mwTokens + 1
    /\ task' = [task EXCEPT ![id].pc = "pre"]
    /\ UNCHANGED <<si, engineVars, conf, Cache, mwCount, mwStatus, mwMain>>

\* count.Wait() saw the counter return to zero, the queue is closed, the
\* range loop ends and Crawl returns
MwReturn ==
    /\ mwMain.pc = "range"
    /\ WaitBreak(mwCount)
    /\ mwMain' = [mwMain EXCEPT !.pc = "returned"]
    /\ UNCHANGED <<si, engineVars, conf, task, Cache, mwTokens, mwCount, mwStatus>>

\* ---------------------------------------------------------------------------
\* Crawler.crawl, run by the task goroutine of request id
\* ---------------------------------------------------------------------------

\* StatusInfo.AddRunningPage: s.RunningPages[req.URL] = struct{}{}
AddRunningPage(s, url) == [s EXCEPT !.RunningPages = @ \cup {url}]

\* delete(s.RunningPages, req.URL), the second statement of AddSucceed(req)
DeleteRunningPage(s, url) == [s EXCEPT !.RunningPages = @ \ {url}]

\* the position after a loop that ended with the given calls
AfterLoop(log, next) == IF handleErr(ChainResult(log)) THEN next ELSE "finish"

\* c.StatusInfo.AddRunningPage(req);
\* for _, m := range c.DownloadMiddlewares { m.ProcessRequest(req, spider) }
MwPre(id) ==
    /\ task[id].pc = "pre"
    /\ LET t   == task[id]
           log == RunHooks(DefaultDownloadMiddlewares, "ProcessRequest", t)
       IN  task' = [task EXCEPT ![id] =
                      [t EXCEPT !.steps = @ \o log,
                                !.handled = @ \o HandledBy(log),
                                !.pc = AfterLoop(log, "download")]]
    /\ mwStatus' = AddRunningPage(mwStatus, task[id].url)
    /\ UNCHANGED <<si, engineVars, conf, Cache, mwTokens, mwCount, mwMain>>

\* downloads of the url so far, by any request
Attempts(url) ==
    Cardinality({j \in TaskIds : task[j].url = url /\ task[j].err # "none"})

\* req.Meta["__type__"] == "file": the test of crawl() and of the Downloader
IsFileRequest(t) == t.__type__ = "file"

\* the Downloader: getResponse fails for a url that does not parse and for
\* the first conf.failFirst attempts of a url (every attempt with
\* conf.alwaysFail), with an error that is not a DropTaskError; otherwise
\* fileDownload returns what WriteFile returned and httpDownload answers 200
Download(t) ==
    IF ~Parses(t.url) \/ conf.alwaysFail \/ Attempts(t.url) < conf.failFirst
      THEN [err |-> "other", status |-> 0]
    ELSE IF IsFileRequest(t)
      THEN [err |-> conf.write, status |-> 200]
      ELSE [err |-> "nil", status |-> 200]

\* mutant of CountsAsFile: the error of the response is not looked at
CountsAsFileAnyErr(t, err) == IsFileRequest(t)

\* crawl(): AddFiles is called for a file request whose response carries a
\* DropTaskError
CountsAsFile(t, err) == IsFileRequest(t) /\ err = "drop"

\* res := c.Downloader.Download(req, spider); c.StatusInfo.AddCrawled(); then
\* the file check
MwDownload(id) ==
    /\ task[id].pc = "download"
    /\ LET t == task[id]
           res == Download(t)
       IN  /\ task' = [task EXCEPT ![id] =
                         [t EXCEPT !.err = res.err,
                                   !.status = res.status,
                                   !.steps = Append(@, [mw |-> "Downloader",
                                                        hook |-> "Download",
                                                        res |-> "ok",
                                                        retry |-> t.retry]),
                                   !.pc = "post"]]
           /\ mwStatus' = IF CountsAsFile(t, res.err)
                            THEN AddFiles(AddCrawled(mwStatus))
                            ELSE AddCrawled(mwStatus)
    /\ UNCHANGED <<si, engineVars, conf, Cache, mwTokens, mwCount, mwMain>>

\* for _, m := range c.DownloadMiddlewares { m.ProcessResponse(res, req, spider) }
\* RetryMiddleware may yield the request again (same meta, nil parent);
\* CacheMiddleware adds the url to the cache
MwPost(id) ==
    /\ task[id].pc = "post"
    /\ LET t     == task[id]
           log   == RunHooks(DefaultDownloadMiddlewares, "ProcessResponse", t)
           rp    == RetryProcessResponse(t.err, t.retry)
           retry == IF Ran("Retry", log) THEN rp.retry ELSE t.retry
           yield == Ran("Retry", log) /\ rp.yield
           new   == [MwNewRequest(t.url, retry, t.depth, 0, "retry")
                       EXCEPT !.__type__ = t.__type__, !.type = t.type,
                              !.obj = t.obj]
           me    == [t EXCEPT !.steps = @ \o log,
                              !.handled = @ \o HandledBy(log),
                              !.retry = retry,
                              !.pc = AfterLoop(log, "spider")]
       IN  /\ yield => NextId <= MaxTasks
           /\ task' = IF yield
                        THEN [task EXCEPT ![id] = me, ![NextId] = new]
                        ELSE [task EXCEPT ![id] = me]
           /\ mwStatus' = IF yield THEN MwPagesAfter(new) ELSE mwStatus
           /\ mwCount' = IF yield THEN MwCountAfter(new) ELSE mwCount
           /\ Cache' = IF Ran("Cache", log) THEN Cache \cup {t.url} ELSE Cache
    /\ UNCHANGED <<si, engineVars, conf, mwTokens, mwMain>>

\* for _, m := range c.SpiderMiddlewares { m.ProcessResponse(res, req, spider) }
\* DepthMiddleware writes the depth into the meta the response shares with
\* its request
MwSpider(id) ==
    /\ task[id].pc = "spider"
    /\ LET t   == task[id]
           log == RunHooks(DefaultSpiderMiddlewares, "ProcessResponse", t)
       IN  task' = [task EXCEPT ![id] =
                      [t EXCEPT !.steps = @ \o log,
                                !.handled = @ \o HandledBy(log),
                                !.depth = IF Ran("Depth", log)
                                            THEN DepthProcessResponse(t.depth)
                                            ELSE t.depth,
                                !.pc = AfterLoop(log, "parser")]]
    /\ UNCHANGED <<si, engineVars, conf, Cache, mwTokens, mwCount, mwStatus, mwMain>>

\* the item the parser yields for the response of request t: none for the
\* response of a request that FilePipeline emitted
YieldedItem(t) == IF t.origin = "item" THEN "none" ELSE conf.item

\* parser(res, req, spider), which yields one child request with its response
\* as the parent when conf.child and one item (NewItem: AddItem, count.Add(),
\* a goroutine for the pipelines) when conf.item says so; then
\* c.StatusInfo.AddSucceed(req)
MwParser(id) ==
    /\ task[id].pc = "parser"
    /\ LET t   == task[id]
           new == MwNewRequest(Child(t.url), 0, 0, id, "parser")
           me  == [t EXCEPT !.steps = Append(@, [mw |-> "parser", hook |-> "call",
                                                 res |-> "ok"]),
                            !.succ = TRUE,
                            !.pc = "finish"]
           it  == YieldedItem(t)
           st  == IF conf.child THEN MwPagesAfter(new) ELSE mwStatus
           cnt == IF conf.child THEN MwCountAfter(new) ELSE mwCount
       IN  /\ conf.child => NextId <= MaxTasks
           /\ task' = IF conf.child
                        THEN [task EXCEPT ![id] = me, ![NextId] = new]
                        ELSE [task EXCEPT ![id] = me]
           /\ mwStatus' = DeleteRunningPage(
                             AddSucceed(IF it # "none" THEN AddItem(st) ELSE st),
                             t.url)
           /\ mwCount' = IF it # "none" THEN cnt + 1 ELSE cnt
           /\ mwMain' = IF it # "none"
                          THEN [mwMain EXCEPT !.items = Append(@, it)]
                          ELSE mwMain
    /\ UNCHANGED <<si, engineVars, conf, Cache, mwTokens>>

\* FilePipeline.Process: the requests it emits for an item. An item without
\* fileurls passes; for the url in fileurls whose file is missing (or smaller
\* than 512 bytes) it emits a request with Meta["type"] = "file" and
\* Meta["filepath"] set
FilePipelineProcess(item) ==
    IF item = "files" /\ ~conf.fileExists
      THEN <<[url |-> UrlFile, type |-> "file"]>>
      ELSE <<>>

\* the goroutine of NewItem: the loop over the pipelines. FilePipeline.Process
\* sends its request through NewRequest(fileRequest, nil, spider) and returns
\* nil; the loop breaks at the first error, which is logged when it is a
\* DropItemError and passed to the pipeline's HandleErr otherwise
MwItem ==
    /\ mwMain.items # <<>>
    /\ Head(mwMain.items) # "processed"
    /\ LET emit == FilePipelineProcess(Head(mwMain.items))
           new  == [MwNewRequest(emit[1].url, 0, 0, 0, "item")
                      EXCEPT !.type = emit[1].type]
           log  == RunHooks(DefaultItemPipelines, "Process", FreeTask)
       IN  /\ emit # <<>> => NextId <= MaxTasks
           /\ task' = IF emit # <<>> THEN [task EXCEPT ![NextId] = new] ELSE task
           /\ mwStatus' = IF emit # <<>> THEN MwPagesAfter(new) ELSE mwStatus
           /\ mwCount' = IF emit # <<>> THEN MwCountAfter(new) ELSE mwCount
           /\ mwMain' = [mwMain EXCEPT
                           !.items = <<"processed">> \o Tail(@),
                           !.itemLog = Append(@, [steps |-> log,
                                                  handled |-> ItemHandledBy(log),
                                                  dones |-> 0])]
    /\ UNCHANGED <<si, engineVars, conf, Cache, mwTokens>>

\* the goroutine of NewItem after its loop: c.count.Done()
MwItemDone ==
    /\ mwMain.items # <<>>
    /\ Head(mwMain.items) = "processed"
    /\ mwCount' = mwCount - 1
    /\ mwMain' = [mwMain EXCEPT !.items = Tail(@),
                                !.itemLog[Len(mwMain.itemLog)].dones = @ + 1]
    /\ UNCHANGED <<si, engineVars, conf, task, Cache, mwTokens, mwStatus>>

\* crawl() has returned: c.count.Done(); <-c.tokens
MwFinish(id) ==
    /\ task[id].pc = "finish"
    /\ task' = [task EXCEPT ![id].pc = "done", ![id].dones = @ + 1]
    /\ mwCount' = mwCount - 1
    /\ mwTokens' = mwTokens - 1
    /\ UNCHANGED <<si, engineVars, conf, Cache, mwStatus, mwMain>>

MwNext ==
    \/ MwCheckStart \/ MwAddStart \/ MwReturn \/ MwItem \/ MwItemDone
    \/ \E id \in TaskIds :
         \/ MwDispatch(id) \/ MwPre(id) \/ MwDownload(id) \/ MwPost(id)
         \/ MwSpider(id) \/ MwParser(id) \/ MwFinish(id)

MwSpec == MwInit /\ [][MwNext]_vars

\* the crawl has ended
MwReturned == mwMain.pc = "returned"

\* requests with the given url that the Downloader was called for
Downloaded(url) == {id \in TaskIds : task[id].url = url /\ task[id].err # "none"}

\* ---------------------------------------------------------------------------
\* Properties of the crawl with the default middlewares
\* ---------------------------------------------------------------------------

\* the user middlewares do nothing and the Downloader always answers 200
PlainCrawl ==
    /\ conf.user.mw = "none"
    /\ conf.failFirst = 0
    /\ ~conf.alwaysFail

\* C11: with the Cache middleware registered and a Downloader that answers,
\* a url is passed to the Downloader at most once in a crawl, for every gate
\* size and interleaving; two equal start urls end with Pages = 2,
\* Crawled = 1, Succeed = 1.
C11_CacheDownloadsOnce ==
    PlainCrawl =>
      /\ \A id \in TaskIds : Cardinality(Downloaded(task[id].url)) <= 1
      /\ (MwReturned /\ conf.StartURLs = <<UrlA, UrlA>> /\ ~conf.child)
           => mwStatus.Pages = 2 /\ mwStatus.Crawled = 1 /\ mwStatus.Succeed = 1

\* what the claim C12 says RetryMiddleware.ProcessResponse does
ClaimedRetryProcessResponse(err, retry) ==
    IF err = "nil" THEN [result |-> "ok", yield |-> FALSE, retry |-> retry]
    ELSE IF err = "drop" THEN [result |-> "drop", yield |-> FALSE, retry |-> retry]
    ELSE [result |-> "drop",
          yield |-> conf.RetryEnabled /\ retry + 1 <= conf.RetryTimes,
          retry |-> retry + 1]

\* C12: RetryMiddleware.ProcessResponse returns ok for a nil error and the
\* drop for a drop; otherwise it increments meta.retry, yields the request
\* again exactly when retry is enabled and the new value is <= RetryTimes,
\* and returns a drop. Stated for every call the crawl makes.
C12_RetryContract ==
    [][\A id \in TaskIds :
         (task[id].pc = "post" /\ task'[id].pc # "post"
            /\ conf.user.hook # "ProcessResponse")
           => LET t == task[id]
                  claimed == ClaimedRetryProcessResponse(t.err, t.retry)
              IN  /\ task'[id].retry = claimed.retry
                  /\ (\E j \in TaskIds : task[j].pc = "free"
                                         /\ task'[j].origin = "retry")
                       <=> claimed.yield
                  /\ (task'[id].pc = "spider") <=> (claimed.result = "ok")]_vars

\* C13: with retry enabled, RetryTimes = 0 and a Downloader that always
\* fails, no request is yielded again, every start url is downloaded exactly
\* once, and the crawl ends with Succeed = 0.
C13_NoRetryAtZero ==
    (conf.RetryEnabled /\ conf.RetryTimes = 0 /\ conf.alwaysFail
       /\ conf.user.mw = "none")
      => /\ \A id \in TaskIds : task[id].origin # "retry"
         /\ MwReturned => /\ mwStatus.Crawled = Len(conf.StartURLs)
                          /\ mwStatus.Succeed = 0

\* the crawl of scenario S4: one start url, RetryTimes = 3, the Downloader
\* fails the first two attempts and answers 200 on the third
RetryThenSucceed ==
    /\ conf.StartURLs = <<UrlA>>
    /\ conf.RetryEnabled /\ conf.RetryTimes = 3
    /\ conf.failFirst = 2 /\ ~conf.alwaysFail
    /\ conf.user.mw = "none"
    /\ ~conf.child

\* the Download call of request id, if it was made
DownloadStep(id) ==
    {task[id].steps[i] : i \in {k \in 1..Len(task[id].steps) :
                                  task[id].steps[k].mw = "Downloader"}}

\* C14: in that crawl the Downloader is called three times for the url, with
\* meta.retry unset, then 1, then 2; the parser is called exactly once; the
\* crawl ends with Succeed = 1.
C14_RetryThenSucceed ==
    (RetryThenSucceed /\ MwReturned)
      => /\ Downloaded(UrlA) = {1, 2, 3}
         /\ \A id \in {1, 2, 3} : DownloadStep(id) =
              {[mw |-> "Downloader", hook |-> "Download", res |-> "ok",
                retry |-> id - 1]}
         /\ Cardinality({id \in TaskIds : task[id].succ}) = 1
         /\ task[3].succ /\ task[3].url = UrlA
         /\ mwStatus.Succeed = 1

C14_Witness ==
    /\ RetryThenSucceed
    /\ MwReturned
    /\ task[3].succ

\* the requests a parser yielded
ParserYielded == {id \in TaskIds : task[id].origin = "parser"}

\* C15: the response of a start request gets depth 1; a request yielded by a
\* parser gets the depth of its parent response plus one and is dropped at
\* new-request when DepthLimit > 0 and its depth is larger (it is never
\* counted as a page, queued or run). With DepthLimit = 1 and a parser that
\* yields one child per response no child is downloaded: one download per
\* start url.
C15_DepthLimit ==
    /\ \A id \in TaskIds :
         (task[id].origin = "start" /\ Ran("Depth", task[id].steps))
           => task[id].depth = 1
    /\ \A id \in ParserYielded :
         /\ task[id].depth = task[task[id].parent].depth + 1
         /\ conf.user.hook # "ProcessNewRequest"
              => (task[id].pc = "droppedNew"
                    <=> (conf.DepthLimit > 0 /\ task[id].depth > conf.DepthLimit))
         /\ task[id].pc = "droppedNew"
              => task[id].steps = <<>> /\ task[id].dones = 0
    /\ mwStatus.Pages =
         Cardinality({id \in TaskIds : task[id].pc \notin {"free", "droppedNew"}})
    /\ (conf.DepthLimit = 1 /\ conf.child /\ PlainCrawl)
         => /\ \A id \in ParserYielded : task[id].pc = "droppedNew"
            /\ (MwReturned /\ conf.StartURLs \in {<<UrlA>>, <<UrlA, UrlB>>})
                 => mwStatus.Crawled = Len(conf.StartURLs)

C15_Witness ==
    /\ conf.DepthLimit = 1 /\ conf.child /\ PlainCrawl
    /\ conf.StartURLs = <<UrlA>>
    /\ MwReturned
    /\ mwStatus.Crawled = 1
    /\ \E id \in ParserYielded : task[id].pc = "droppedNew" /\ task[id].depth = 2

\* the crawl of C16: DepthLimit = 2, one start url, a parser that yields one
\* child per response, a Downloader that answers
DepthTwoCrawl ==
    /\ conf.DepthLimit = 2 /\ conf.child /\ PlainCrawl
    /\ conf.StartURLs = <<UrlA>>

\* C16 as stated: that crawl makes exactly three Downloader calls.
C16_ThreeDownloads ==
    (DepthTwoCrawl /\ MwReturned) => mwStatus.Crawled = 3

\* C16 as amended: that crawl makes exactly two Downloader calls, for the
\* start url (depth 1) and its child (depth 2); the child of the child has
\* depth 3 and is dropped at new-request.
C16_TwoDownloads ==
    (DepthTwoCrawl /\ MwReturned)
      => /\ mwStatus.Crawled = 2
         /\ Downloaded(UrlA) = {1} /\ Downloaded(Child(UrlA)) = {2}
         /\ task[3].pc = "droppedNew" /\ task[3].depth = 3

C16_Witness ==
    /\ DepthTwoCrawl
    /\ MwReturned
    /\ mwStatus.Crawled = 2

\* C17: with no start url, Crawl opens and then closes every listener,
\* download middleware, spider middleware and item pipeline, yields no request
\* (so the Downloader is never called), never starts waiting on the
\* in-flight counter, and returns.
C17_EmptyStartReturns ==
    /\ [](startURLs = 0
            => /\ nreq = 0 /\ nitem = 0
               /\ \A r \in ReqIds : reqPc[r] = "free"
               /\ waiterPc = "none"
               /\ Returned => \A c \in DOMAIN lifecycle : lifecycle[c] = "closed")
    /\ [][\A c \in DOMAIN lifecycle :
            lifecycle'[c] # lifecycle[c]
              => <<lifecycle[c], lifecycle'[c]>>
                   \in {<<"new", "open">>, <<"open", "closed">>}]_vars
    /\ (startURLs = 0 => <>Returned)

C17_Witness ==
    /\ startURLs = 0
    /\ Returned
    /\ \A c \in DOMAIN lifecycle : lifecycle[c] = "closed"

\* the calls of one loop over a chain when every hook returns ok
AllHooks(chain, hook) == [i \in 1..Len(chain) |-> [mw |-> chain[i], hook |-> hook]]

\* the calls of crawl() for a request that reaches its parser, in the order of
\* the claim C18: the chains in registration order
LifecycleOrder ==
    AllHooks(DefaultDownloadMiddlewares, "ProcessRequest")
      \o <<[mw |-> "Downloader", hook |-> "Download"]>>
      \o AllHooks(DefaultDownloadMiddlewares, "ProcessResponse")
      \o AllHooks(DefaultSpiderMiddlewares, "ProcessResponse")
      \o <<[mw |-> "parser", hook |-> "call"]>>

\* log consists of the first calls of `order`, and every call but the last
\* returned ok
RunsInOrder(log, order) ==
    /\ Len(log) <= Len(order)
    /\ \A i \in 1..Len(log) :
         /\ log[i].mw = order[i].mw
         /\ log[i].hook = order[i].hook
         /\ i < Len(log) => log[i].res = "ok"

\* C18: the steps of one request run in the order ProcessRequest of every
\* download middleware in registration order, Download, ProcessResponse of
\* every download middleware, ProcessResponse of every spider middleware, the
\* parser; a step runs only if every step before it returned ok.
C18_LifecycleOrder ==
    \A id \in TaskIds : RunsInOrder(task[id].steps, LifecycleOrder)

C18_Witness ==
    /\ MwReturned
    /\ \E id \in TaskIds : Len(task[id].steps) = Len(LifecycleOrder)
    /\ \E id \in TaskIds : /\ task[id].pc = "done"
                           /\ Len(task[id].steps) = 9
                           /\ task[id].steps[9].mw = "Retry"
                           /\ task[id].steps[9].res = "drop"

\* the steps of request id that returned a drop or a failure
Stopped(id) ==
    {i \in 1..Len(task[id].steps) : task[id].steps[i].res # "ok"}

\* C19: when a step of a request returns a drop or a failure, no later step
\* of that request runs, Succeed is not incremented for it and its task still
\* calls count.Done() exactly once; a drop calls no HandleErr, a failure
\* calls HandleErr of the middleware that returned it, once.
C19_StopOnDropOrFail ==
    /\ \A id \in TaskIds :
         /\ \A i \in Stopped(id) :
              /\ i = Len(task[id].steps)
              /\ ~task[id].succ
              /\ task[id].pc \in {"finish", "done"}
              /\ task[id].handled = IF task[id].steps[i].res # "drop"
                                      THEN <<task[id].steps[i].mw>> ELSE <<>>
         /\ (Stopped(id) = {} /\ task[id].pc # "droppedNew")
              => task[id].handled = <<>>
         /\ task[id].dones = IF task[id].pc = "done" THEN 1 ELSE 0
         /\ MwReturned => task[id].pc \in {"free", "droppedNew", "done"}
    /\ mwStatus.Succeed = Cardinality({id \in TaskIds : task[id].succ})

C19_Witness ==
    /\ MwReturned
    /\ \E id \in TaskIds :
         /\ Stopped(id) # {}
         /\ task[id].handled = <<"UserDM">>
         /\ task[id].err = "nil"
         /\ task[id].dones = 1

MaxSiPages == 2

\* periodic reports the ticker triggers in one run
MaxReports == 2

SiWorkers == {"w1", "w2"}
SiThreads == SiWorkers \cup {"main", "listener"}

\* the methods of StatusInfo the workers call (AddPage stands for the Add*
\* methods, which all lock, add one to a field and unlock)
SiMethods == {"IsInterrupt", "AddPage"}

SiInit ==
    /\ EngineInit
    /\ startURLs = 0
    /\ tokensCap = 1
    /\ MwOff
    /\ si = [on |-> TRUE, mutex |-> "free",
             pc |-> [t \in SiThreads |->
                       CASE t = "main" -> "openUI"
                         [] t = "listener" -> "off"
                         [] OTHER -> "idle"],
             signals |-> 0, Interrupted |-> FALSE, Reason |-> "", Pages |-> 0,
             closeReason |-> "none",
             reporter |-> "off", reports |-> 0,
             uiClosed |-> FALSE, siClosed |-> FALSE,
             lateReport |-> FALSE, lateInterrupt |-> FALSE]

SiUnchanged == UNCHANGED <<engineVars, mwVars>>

\* UserInterrupt.Open starts the listener
SiOpenUI ==
    /\ si.pc["main"] = "openUI"
    /\ si' = [si EXCEPT !.pc["main"] = "open", !.pc["listener"] = "select"]
    /\ SiUnchanged

\* StatusInfo.Open: s.Reason = "Jobs completed", without s.mutex, and the
\* reporter goroutine is started
SiOpen ==
    /\ si.pc["main"] = "open"
    /\ si' = [si EXCEPT !.Reason = "Jobs completed", !.pc["main"] = "run",
                        !.reporter = "select"]
    /\ SiUnchanged

\* the reporter: case <-ticker.C: the lines of s.Report() are logged (the
\* ticker is never stopped)
SiTick ==
    /\ si.reporter = "select"
    /\ si.reports < MaxReports
    /\ si' = [si EXCEPT !.reports = @ + 1,
                        !.lateReport = @ \/ si.siClosed]
    /\ SiUnchanged

\* a worker enters a method: s.mutex.Lock()
SiLock(w, m) ==
    /\ si.pc["main"] = "run"
    /\ si.pc[w] = "idle"
    /\ si.mutex = "free"
    /\ m = "AddPage" => si.Pages < MaxSiPages
    /\ si' = [si EXCEPT !.mutex = w, !.pc[w] = m]
    /\ SiUnchanged

\* the body of the method: return s.Interrupted, or s.Pages++
SiBody(w) ==
    /\ si.pc[w] \in SiMethods
    /\ si' = [si EXCEPT !.Pages = IF si.pc[w] = "AddPage" THEN @ + 1 ELSE @,
                        !.pc[w] = "unlock"]
    /\ SiUnchanged

\* s.mutex.Unlock()
SiUnlock(w) ==
    /\ si.pc[w] = "unlock"
    /\ si' = [si EXCEPT !.mutex = "free", !.pc[w] = "idle"]
    /\ SiUnchanged

\* case <-u.interrupt: the listener calls StatusInfo.Interrupt()
SiSignal ==
    /\ si.pc["listener"] = "select"
    /\ si.signals < MaxSignals
    /\ si' = [si EXCEPT !.signals = @ + 1, !.pc["listener"] = "flag",
                        !.lateInterrupt = @ \/ si.uiClosed]
    /\ SiUnchanged

\* Interrupt(): s.Interrupted = true, without s.mutex
SiInterruptFlag ==
    /\ si.pc["listener"] = "flag"
    /\ si' = [si EXCEPT !.Interrupted = TRUE, !.pc["listener"] = "reason"]
    /\ SiUnchanged

\* Interrupt(): s.Reason = "User interrupted", without s.mutex
SiInterruptReason ==
    /\ si.pc["listener"] = "reason"
    /\ si' = [si EXCEPT !.Reason = "User interrupted", !.pc["listener"] = "select"]
    /\ SiUnchanged

\* the workers have ended; Crawl goes on to its Close loops
SiDrained ==
    /\ si.pc["main"] = "run"
    /\ \A w \in SiWorkers : si.pc[w] = "idle"
    /\ si' = [si EXCEPT !.pc["main"] = "close"]
    /\ SiUnchanged

\* p.Close(c.StatusInfo.Reason, spider): Crawl reads Reason without s.mutex
SiClose ==
    /\ si.pc["main"] = "close"
    /\ si' = [si EXCEPT !.closeReason = si.Reason, !.pc["main"] = "closeUI"]
    /\ SiUnchanged

\* where a goroutine is after `case <-closed: break` in its
\* `for { select { ... } }`: the break leaves the select, not the loop
AfterClosedCase == "select"

\* UserInterrupt.Close: u.closed <- true is taken by the listener in its
\* select; Close returns
SiCloseUI ==
    /\ si.pc["main"] = "closeUI"
    /\ si.pc["listener"] = "select"
    /\ si' = [si EXCEPT !.pc["listener"] = AfterClosedCase,
                        !.uiClosed = TRUE,
                        !.pc["main"] = "closeSI"]
    /\ SiUnchanged

\* StatusInfo.Close: s.closed <- true is taken by the reporter in its select;
\* the final report is written and Close returns
SiCloseSI ==
    /\ si.pc["main"] = "closeSI"
    /\ si.reporter = "select"
    /\ si' = [si EXCEPT !.reporter = AfterClosedCase,
                        !.siClosed = TRUE,
                        !.pc["main"] = "returned"]
    /\ SiUnchanged

SiNext ==
    \/ SiOpenUI \/ SiOpen \/ SiDrained \/ SiClose \/ SiCloseUI \/ SiCloseSI
    \/ SiTick
    \/ \E w \in SiWorkers : (\E m \in SiMethods : SiLock(w, m)) \/ SiBody(w) \/ SiUnlock(w)
    \/ SiSignal \/ SiInterruptFlag \/ SiInterruptReason

SiSpec == SiInit /\ [][SiNext]_vars

\* the access to a field of StatusInfo that the next step of thread t makes
SiAccess(t) ==
    CASE t = "main" /\ si.pc[t] = "open"        -> [field |-> "Reason", write |-> TRUE]
      [] t = "main" /\ si.pc[t] = "close"       -> [field |-> "Reason", write |-> FALSE]
      [] t = "listener" /\ si.pc[t] = "flag"    -> [field |-> "Interrupted", write |-> TRUE]
      [] t = "listener" /\ si.pc[t] = "reason"  -> [field |-> "Reason", write |-> TRUE]
      [] t \in SiWorkers /\ si.pc[t] = "IsInterrupt"
                                                -> [field |-> "Interrupted", write |-> FALSE]
      [] t \in SiWorkers /\ si.pc[t] = "AddPage" -> [field |-> "Pages", write |-> TRUE]
      [] OTHER                                  -> [field |-> "none", write |-> FALSE]

\* thread t is about to write interrupted or reason while thread u, holding
\* the mutex, is about to read that field
WriteDuringLockedRead(t, u) ==
    /\ t # u
    /\ SiAccess(t).write
    /\ SiAccess(t).field \in {"Interrupted", "Reason"}
    /\ SiAccess(u) = [field |-> SiAccess(t).field, write |-> FALSE]
    /\ si.mutex = u

\* C30: every write to a field of StatusInfo and every read of interrupted is
\* made while the status mutex is held by the accessing goroutine, and in no
\* state does one goroutine write interrupted or reason while another reads
\* that field under the mutex.
C30_StatusAccessUnderMutex ==
    /\ \A t \in SiThreads :
         (SiAccess(t).write \/ SiAccess(t) = [field |-> "Interrupted", write |-> FALSE])
            => si.mutex = t
    /\ \A t, u \in SiThreads : ~WriteDuringLockedRead(t, u)

\* ===========================================================================
\* Claims about the engine (first part), continued
\* ===========================================================================

Categories == {"UI", "SI", "DM", "SM", "IP"}

\* the Open loops of Crawl: OpenCloses, DownloadMiddlewares, SpiderMiddlewares,
\* ItemPipelines; a category is opened only when the ones before it are
OpenOrder ==
    /\ lifecycle["SI"] # "new" => lifecycle["UI"] # "new"
    /\ lifecycle["DM"] # "new" => lifecycle["SI"] # "new"
    /\ lifecycle["SM"] # "new" => lifecycle["DM"] # "new"
    /\ lifecycle["IP"] # "new" => lifecycle["SM"] # "new"

\* the Close loops of Crawl: ItemPipelines, SpiderMiddlewares,
\* DownloadMiddlewares, OpenCloses
CloseOrder ==
    /\ lifecycle["SM"] = "closed" => lifecycle["IP"] = "closed"
    /\ lifecycle["DM"] = "closed" => lifecycle["SM"] = "closed"
    /\ lifecycle["UI"] = "closed" => lifecycle["DM"] = "closed"
    /\ lifecycle["SI"] = "closed" => lifecycle["UI"] = "closed"

\* the dispatcher has left its loop (or never entered it) and no task runs
Drained ==
    /\ startURLs = 0 \/ RangeEnds
    /\ \A r \in ReqIds : reqPc[r] \notin {"pre", "download", "post", "spider", "parser"}

\* C22: Open runs on the listeners, then the download middlewares, then the
\* spider middlewares, then the item pipelines, all before the first request
\* is admitted; Close runs on the item pipelines, the spider middlewares, the
\* download middlewares and the listeners, in that order and only after the
\* drain, and every component is passed the same reason.
C22_OpenCloseOrderSameReason ==
    /\ OpenOrder
    /\ (startIdx > 0 \/ nreq > 0) => \A c \in Categories : lifecycle[c] # "new"
    /\ CloseOrder
    /\ (\E c \in Categories : lifecycle[c] = "closed") => Drained
    /\ \A c, d \in Categories :
         (lifecycle[c] = "closed" /\ lifecycle[d] = "closed")
            => closeReason[c] = closeReason[d]

\* the calls of a finished pipeline loop are the pipelines in registration
\* order, and only the last call may have returned an error
InOrderStopAtFirst(log) ==
    /\ Len(log) \in 1..Len(ItemPipelines)
    /\ \A k \in 1..Len(log) : log[k][1] = ItemPipelines[k]
    /\ \A k \in 1..(Len(log) - 1) : log[k][2] = "ok"
    /\ log[Len(log)][2] = "ok" => Len(log) = Len(ItemPipelines)

\* C21: yield_item increments status.items and the in-flight count by one
\* each; the item task runs the pipelines in registration order, stops at the
\* first drop or error and calls counter.done() exactly once in every case;
\* an item task never takes or gives back a gate token.
C21_ItemTask ==
    /\ [](/\ StatusInfo.Items = nitem
          /\ \A i \in ItemIds :
               itemPc[i] = "doneSend"
                  => InOrderStopAtFirst(outcomes[ItemThread(i)]))
    /\ [][/\ StatusInfo'.Items # StatusInfo.Items
             => nitem' = nitem + 1 /\ StatusInfo'.Items = StatusInfo.Items + 1
          /\ \A i \in ItemIds :
               itemPc'[i] # itemPc[i] =>
                 /\ tokens' = tokens
                 /\ <<itemPc[i], itemPc'[i]>> \in
                      {<<"free", "adding">>, <<"adding", "run">>,
                       <<"run", "doneSend">>, <<"doneSend", "finished">>}
                 /\ itemPc'[i] = "adding" => StatusInfo'.Items = StatusInfo.Items + 1
                 /\ itemPc'[i] = "run" => adds' = adds + 1 /\ done' = Append(done, TRUE)
                 /\ itemPc'[i] = "finished"
                      => dones' = dones + 1 /\ done' = Append(done, FALSE)]_vars

\* an item task has run to its end, counter.done() included, while the task
\* of the parser that yielded it still holds the only gate token
C21_Witness ==
    /\ tokensCap = 1 /\ tokens = 1
    /\ dones = 1
    /\ \E i \in ItemIds :
         /\ itemPc[i] = "finished"
         /\ reqPc[icreator[i]] = "parser"

\* C23: when the parser name of a request is not registered, the task ends as
\* a drop: no parser is called for it and status.succeed is not incremented.
C23_MissingParserNotSucceeded ==
    [][\A r \in ReqIds :
         (/\ reqPc[r] = "spider"
          /\ outcomes'[r] # outcomes[r]
          /\ outcomes'[r][Len(outcomes'[r])] = "noparser")
            => /\ reqPc'[r] # "parser"
               /\ StatusInfo'.Succeed = StatusInfo.Succeed]_vars

\* C29: once a call of Interrupt() has returned, interrupted is true and the
\* reason is "User interrupted" in every later state, so every Close made
\* after it is given "User interrupted"; this includes a signal handled
\* between UserInterrupt.Open and StatusInfo.Open.
C29_InterruptedReasonSticks ==
    /\ [](intrDone => StatusInfo.Interrupted /\ StatusInfo.Reason = "User interrupted")
    /\ [][intrDone =>
            \A c \in Categories :
              closeReason'[c] # closeReason[c]
                 => closeReason'[c] = "User interrupted"]_vars

\* ===========================================================================
\* Claims about the crawl with the default middlewares (second part), continued
\* ===========================================================================

\* request id has been handed to a task goroutine
Started(id) == task[id].pc \in {"download", "post", "spider", "parser", "finish", "done"}

\* crawl() has returned for request id
Ended(id) == task[id].pc \in {"finish", "done"}

\* C24: a request whose url cannot be parsed is dropped: it never reaches the
\* Downloader and it is never yielded again.
C24_UnparseableDropped ==
    \A id \in TaskIds :
      (task[id].pc # "free" /\ ~Parses(task[id].url))
        => /\ ~Ran("Downloader", task[id].steps)
           /\ task[id].origin # "retry"
           /\ Ended(id) => ChainResult(task[id].steps) = "drop"

\* allowed_domains is not empty and the host of the url ends with none of
\* its domains
IsOffSite(url) ==
    /\ conf.AllowedDomains # <<>>
    /\ \A i \in 1..Len(conf.AllowedDomains) :
         LET h == Host(url)
             d == conf.AllowedDomains[i]
         IN  Len(h) < Len(d) \/ [k \in 1..Len(d) |-> h[Len(h) - Len(d) + k]] # d

\* C25: a request whose host ends with none of the allowed domains is dropped
\* by the first ProcessRequest, is never downloaded and reaches no parser,
\* while addRequest has counted it as a page; with an empty allowed_domains
\* the filter drops nothing. allowed_domains = ["a.com"] and the one start url
\* of b.com end with pages = 1, crawled = 0, succeed = 0.
C25_OffSiteFilter ==
    /\ \A id \in TaskIds :
         (Started(id) /\ Parses(task[id].url) /\ IsOffSite(task[id].url))
           => /\ task[id].steps =
                   <<[mw |-> "OffSite", hook |-> "ProcessRequest", res |-> "drop"]>>
              /\ Ended(id)
              /\ ~task[id].succ
              /\ task[id].handled = <<>>
    /\ \A id \in TaskIds :
         (task[id].pc # "free" /\ ~IsOffSite(task[id].url))
           => \A i \in 1..Len(task[id].steps) :
                task[id].steps[i].mw = "OffSite" => task[id].steps[i].res = "ok"
    /\ mwStatus.Crawled =
         Cardinality({id \in TaskIds : Ran("Downloader", task[id].steps)})
    /\ (MwReturned /\ conf.AllowedDomains = <<DomA>> /\ conf.StartURLs = <<UrlB>>)
         => mwStatus.Pages = 1 /\ mwStatus.Crawled = 0 /\ mwStatus.Succeed = 0

\* the claim's example has run: the request for b.com was counted and dropped
C25_Witness ==
    /\ MwReturned
    /\ conf.AllowedDomains = <<DomA>> /\ conf.StartURLs = <<UrlB>>
    /\ mwStatus.Pages = 1
    /\ task[1].pc = "done"
    /\ task[1].steps = <<[mw |-> "OffSite", hook |-> "ProcessRequest", res |-> "drop"]>>

\* C26: status.files counts exactly the file requests (meta.__type__ =
\* "file") whose response carries a drop, once each; for such a request Retry
\* returns the drop without yielding the request again, no spider middleware
\* and no parser runs and succeed is not incremented.
C26_FileDropCounted ==
    /\ mwStatus.Files =
         Cardinality({id \in TaskIds :
                        task[id].__type__ = "file" /\ task[id].err = "drop"})
    /\ \A id \in TaskIds :
         (task[id].__type__ = "file" /\ task[id].err = "drop" /\ Ended(id))
           => /\ task[id].steps[Len(task[id].steps)] =
                   [mw |-> "Retry", hook |-> "ProcessResponse", res |-> "drop"]
              /\ \A i \in 1..Len(task[id].steps) :
                   /\ task[id].steps[i].mw # "parser"
                   /\ \A k \in 1..Len(DefaultSpiderMiddlewares) :
                        task[id].steps[i].mw # DefaultSpiderMiddlewares[k]
              /\ ~task[id].succ
    /\ Cardinality({j \in TaskIds : task[j].origin = "retry"})
         <= Cardinality({j \in TaskIds : task[j].err = "other"})
    /\ mwStatus.Succeed = Cardinality({id \in TaskIds : task[id].succ})

\* two file requests were written, one of them on its second attempt, while
\* retries are enabled
C26_Witness ==
    /\ MwReturned
    /\ conf.startType = "file" /\ conf.write = "drop"
    /\ conf.RetryEnabled /\ conf.failFirst = 1
    /\ mwStatus.Files = 2
    /\ \E id \in TaskIds :
         task[id].origin = "retry" /\ task[id].err = "drop" /\ task[id].pc = "done"

\* C27: the parser yields one item with fileurls = ["http://a/x.jpg"], the
\* file does not exist and the file write returns a drop: the crawl ends with
\* items = 1, files = 1, succeed = 1, pages = 2, and the request the file
\* pipeline emitted is a file request (meta.__type__ = "file").
C27_FilePipelineHappyPath ==
    (MwReturned /\ conf.item = "files" /\ ~conf.fileExists /\ conf.write = "drop")
      => /\ mwStatus.Items = 1
         /\ mwStatus.Files = 1
         /\ mwStatus.Succeed = 1
         /\ mwStatus.Pages = 2
         /\ \E id \in TaskIds :
              task[id].origin = "item" /\ task[id].__type__ = "file"

\* one start url, no domain filter, a Downloader that answers 200, a parser
\* that yields nothing, user middlewares that do nothing
SinglePage ==
    /\ conf.StartURLs = <<UrlA>>
    /\ conf.AllowedDomains = <<>>
    /\ conf.startType = "none"
    /\ conf.user.mw = "none"
    /\ conf.failFirst = 0 /\ ~conf.alwaysFail
    /\ ~conf.child /\ conf.item = "none"

\* C28: a single-page crawl ends with pages = 1, crawled = 1, succeed = 1,
\* items = 0, files = 0 and the reason "Jobs completed".
C28_SinglePage ==
    (SinglePage /\ MwReturned)
      => /\ mwStatus.Pages = 1 /\ mwStatus.Crawled = 1 /\ mwStatus.Succeed = 1
         /\ mwStatus.Items = 0 /\ mwStatus.Files = 0
         /\ mwStatus.Reason = "Jobs completed"

C28_Witness ==
    /\ SinglePage /\ MwReturned
    /\ task[1].pc = "done" /\ task[1].succ
    /\ mwStatus.Succeed = 1

\* ===========================================================================
\* Claims about the engine (first part), concluded
\* ===========================================================================

\* the drain waiter has left Wait (it is about to close the queue or has)
DrainFired == waiterPc \in {"close", "exit"}

\* Crawl has left the dispatcher loop: it runs the close hooks or has returned
Closing == mainPc \in {"closeIP", "closeSM", "closeDM", "closeUI", "closeSI", "returned"}

\* C34: a request task releases its gate token before it calls counter.done(),
\* so whenever the drain fires, and while Crawl runs the close hooks and when
\* it returns, no gate token is still held.
C34_NoTokenHeldAtDrain ==
    (DrainFired \/ Closing) => tokens = 0

\* the Adds and Dones the loop of Wait has received so far
ObservedAdds  == adds - Cardinality({k \in 1..Len(done) : done[k]})
ObservedDones == dones - Cardinality({k \in 1..Len(done) : ~done[k]})

\* C33: the count kept by Wait is never negative under any interleaving of the
\* Adds and Dones the engine makes, and Wait returns only after it has
\* observed at least one Add and the count has come back to zero; in
\* particular never on construction or before the first Add.
C33_CountNeverNegative ==
    /\ count >= 0
    /\ count = ObservedAdds - ObservedDones
    /\ DrainFired => (ObservedAdds >= 1 /\ count = 0 /\ ObservedDones = ObservedAdds)
    /\ adds = 0 => ~DrainFired

\* Wait returned after Adds and Dones of several requests and an item had
\* been interleaved
C33_Witness ==
    /\ DrainFired
    /\ ObservedAdds >= 3
    /\ nitem >= 1

\* a goroutine is inside or before a send on c.requests, or inside or before a
\* call of count.Add() or count.Done()
PendingSendOrCount ==
    \/ \E r \in ReqIds : reqPc[r] \in {"adding", "sending", "doneSend"} \/ InCrawl(r)
    \/ \E i \in ItemIds : itemPc[i] \in {"adding", "run", "doneSend"}

\* C36: once the drain waiter has left Wait and closed the request queue, no
\* goroutine ever sends on the request queue (it would panic) and no
\* goroutine calls Add or Done (it would block for ever).
C36_NothingAfterDrain ==
    /\ [](DrainFired => ~PendingSendOrCount)
    /\ [][DrainFired => (adds' = adds /\ dones' = dones
                          /\ nreq' = nreq /\ nitem' = nitem
                          /\ (requests' = requests \/ requests' = Tail(requests)))]_vars

\* the queue was closed after a crawl in which a parser or a pipeline yielded
\* a request and an item and an interrupt was delivered
C36_Witness ==
    /\ reqClosed
    /\ nreq = MaxReq /\ nitem >= 1
    /\ StatusInfo.Interrupted
    /\ \E r \in ReqIds : creator[r] # MainThread /\ reqPc[r] \in {"release", "finished"}

DroppedByCache(id) ==
    \E i \in 1..Len(task[id].steps) :
      /\ task[id].steps[i].mw = "Cache"
      /\ task[id].steps[i].hook = "ProcessRequest"
      /\ task[id].steps[i].res = "drop"

\* CacheMiddleware.ProcessResponse was called for request id
CachedBy(id) ==
    \E i \in 1..Len(task[id].steps) :
      task[id].steps[i].mw = "Cache" /\ task[id].steps[i].hook = "ProcessResponse"

\* a url is in the cache only after a download of it whose error is nil, and a
\* download that ended with an error does not reach Cache.ProcessResponse
InsertedAfterNilErr ==
    /\ \A u \in Cache :
         \E j \in TaskIds : task[j].url = u /\ task[j].err = "nil" /\ CachedBy(j)
    /\ \A id \in TaskIds : task[id].err \in {"other", "drop"} => ~CachedBy(id)

\* C38 as stated: with the order OffSite, Delay, Retry, Cache, a url whose
\* download ended with an error that is not a drop is not inserted into the
\* cache, so the retry yielded for it is never dropped by Cache as a
\* duplicate; a url is inserted only after a download whose error is nil.
C38_RetryNeverDroppedByCache ==
    /\ InsertedAfterNilErr
    /\ \A id \in TaskIds : task[id].origin = "retry" => ~DroppedByCache(id)

\* C38 as amended: a download that ended with an error inserts nothing and a
\* url is inserted only after a download whose error is nil; the retry yielded
\* for a failed download is dropped by Cache only when another request for
\* the same url had been downloaded without error in the meantime.
C38_RetryDroppedOnlyAfterSuccess ==
    /\ InsertedAfterNilErr
    /\ \A id \in TaskIds :
         (task[id].origin = "retry" /\ DroppedByCache(id))
           => \E j \in TaskIds \ {id} :
                task[j].url = task[id].url /\ task[j].err = "nil" /\ CachedBy(j)

\* a download failed, its url stayed out of the cache, and the retry yielded
\* for it passed Cache, was downloaded and put the url into the cache
C38_Witness ==
    \E id, j \in TaskIds :
      /\ task[id].err = "other" /\ task[id].pc = "done"
      /\ task[j].origin = "retry" /\ task[j].url = task[id].url
      /\ task[j].err = "nil" /\ task[j].pc = "done"
      /\ task[j].url \in Cache

\* crawl() is running for request id (between AddRunningPage and its return)
BeingProcessed(id) == task[id].pc \in {"download", "post", "spider", "parser"}

\* C32: the url of a request is in RunningPages only while the request is
\* being processed: it is removed when the request ends by success, by drop
\* or by failure, so when Crawl returns RunningPages is empty.
C32_RunningPagesOnlyWhileProcessed ==
    /\ \A u \in mwStatus.RunningPages :
         \E id \in TaskIds : task[id].url = u /\ BeingProcessed(id)
    /\ MwReturned => mwStatus.RunningPages = {}

\* the task of request id still has reads or writes of req.Meta (and of
\* res.Meta, the same map) ahead of it: the Downloader reads retry, phantomjs
\* and __type__, crawl() reads __type__, isRetriable writes retry,
\* DepthMiddleware writes depth and reads it for the requests the parser yields
MetaAccessAhead(id) ==
    task[id].pc \in {"pre", "download", "post", "spider", "parser"}

\* C35: Request.meta has no concurrent accessors: no two tasks hold the same
\* request object while either still reads or writes its meta; in particular,
\* once Retry has yielded the same request object again, the yielding task
\* makes no further access to the meta of that request.
C35_MetaSingleAccessor ==
    \A i, j \in TaskIds :
      (i < j /\ task[i].pc # "free" /\ task[j].pc # "free"
         /\ task[i].obj = task[j].obj)
        => /\ ~MetaAccessAhead(i)
           /\ task[j].origin = "retry"
           /\ task[j].url = task[i].url

\* the task that yielded the request again has not ended yet (it has still to
\* call Done and release its token) while the new task of the same request
\* object is past the Downloader
C35_Witness ==
    \E i, j \in TaskIds :
      /\ i < j /\ task[i].obj = task[j].obj /\ task[i].obj # 0
      /\ task[i].pc = "finish"
      /\ task[j].pc = "post"

\* the calls of a log stop at the first one that did not return ok
StopsAtFirstError(log) == \A i \in 1..(Len(log) - 1) : log[i].res = "ok"

\* what the claim C39 says is done with the last result of a loop: nothing
\* for ok, a log line for the drop error of the chain, HandleErr of the step
\* that returned it for anything else
ClaimedHandling(log, dropKind) ==
    IF ChainResult(log) \in {"ok", dropKind} THEN <<>> ELSE <<log[Len(log)].mw>>

\* C39: drop classification is per chain. In a request chain only a
\* DropTaskError is a drop and a DropItemError is a failure routed to the
\* HandleErr of the middleware that returned it; in the item pipeline only a
\* DropItemError is a drop and a DropTaskError is a failure routed to the
\* pipeline's HandleErr. Either way the traversal stops there and
\* count.Done() is still called exactly once.
C39_DropClassificationPerChain ==
    /\ \A id \in TaskIds :
         /\ StopsAtFirstError(task[id].steps)
         /\ StopsAtFirstError(task[id].newSteps)
         /\ task[id].handled =
              ClaimedHandling(task[id].newSteps, "drop")
                \o ClaimedHandling(task[id].steps, "drop")
         /\ ChainResult(task[id].steps) # "ok" => task[id].pc \in {"finish", "done"}
         /\ ChainResult(task[id].newSteps) # "ok" => task[id].pc = "droppedNew"
         /\ task[id].dones = IF task[id].pc = "done" THEN 1 ELSE 0
         /\ MwReturned => task[id].pc \in {"free", "droppedNew", "done"}
    /\ \A k \in 1..Len(mwMain.itemLog) :
         LET e == mwMain.itemLog[k] IN
         /\ StopsAtFirstError(e.steps)
         /\ ChainResult(e.steps) = "ok" => Len(e.steps) = Len(DefaultItemPipelines)
         /\ e.handled = ClaimedHandling(e.steps, "dropItem")
         /\ e.dones = IF /\ k = Len(mwMain.itemLog)
                          /\ mwMain.items # <<>>
                          /\ Head(mwMain.items) = "processed"
                         THEN 0 ELSE 1
    /\ Len(mwMain.itemLog) <= mwStatus.Items
    /\ MwReturned => (Len(mwMain.itemLog) = mwStatus.Items /\ mwCount = 0)

\* the crawl ended after the user pipeline returned a DropTaskError for an
\* item: its HandleErr was called and the item task called Done once
C39_Witness ==
    /\ MwReturned
    /\ conf.user = [mw |-> "UserIP", hook |-> "Process", res |-> "drop"]
    /\ Len(mwMain.itemLog) >= 1
    /\ mwMain.itemLog[1].handled = <<"UserIP">>
    /\ mwMain.itemLog[1].dones = 1

\* ===========================================================================
\* Claim about the reporter and the listener (third part)
\* ===========================================================================

\* C31: the reporter started by StatusInfo.Open stops when the engine closes:
\* once StatusInfo.Close has returned the reporter goroutine has ended and no
\* periodic report is emitted any more; likewise the listener started by
\* UserInterrupt.Open has ended once UserInterrupt.Close has returned and
\* handles no signal any more.
C31_ReporterAndListenerStop ==
    si.on =>
      /\ si.siClosed => (si.reporter = "ended" /\ ~si.lateReport)
      /\ si.uiClosed => (si.pc["listener"] = "ended" /\ ~si.lateInterrupt)

====
